---- MODULE Spec2Model ----
(***************************************************************************)
(* State-machine model of the cachalot caching layer: Cache facade,        *)
(* BaseStorage with its offline command queue and tag versions, the three  *)
(* managers built on BaseManager.updateCacheAndGetResult, and the          *)
(* locked-key retrieve strategies, over a Redis-like StorageAdapter.       *)
(***************************************************************************)
EXTENDS Integers, Sequences, FiniteSets, TLC

\* ------------------------------------------------------------------ bounds
NCallers == 2      \* concurrent Cache.get callers
MaxTime == 3       \* clock readings 1..MaxTime (Date.now())
MaxQueue == 2      \* cap on the offline queue length
MaxDrains == 1     \* overlapping executeCommandsFromQueue runs
WfrMaximumTimeout == 2   \* maximumTimeout given to a registered WaitForResult strategy
WfrRequestTimeout == 1   \* requestTimeout given to a registered WaitForResult strategy
LockExpireTimeout == 2   \* lockExpireTimeout of the adapter, in clock ticks
OperationTimeoutD == 2   \* the deadline given to withTimeout, in clock ticks
MaxOps == 2        \* withTimeout calls followed one by one
MaxAdapterCalls == 4   \* lock calls made on one adapter

\* ------------------------------------------------- program constants
EXPIRES_IN_day == 86400000
FactorNum == 8     \* DEFAULT_REFRESH_AHEAD_FACTOR = 0.8 = FactorNum / FactorDen
FactorDen == 10

Callers == 1..NCallers
DrainIds == 1..MaxDrains
Keys == {"k1"}
TagNames == {"t1"}
Managers == {"read-through", "refresh-ahead", "write-through"}
Strategies == {"runExecutor", "waitForResult"}
StrategyOpts == Strategies \cup {"undefined"}   \* options.lockedKeyRetrieveStrategyType
Statuses == {"CONNECTING", "CONNECTED", "DISCONNECTED"}

\* JavaScript values a caller may cache, and the outcomes of an executor
Undefined == "undefined"
Values == {"a", "NaN"}
ExecValues == {"a", "b"}
ExecError == "ExecutorError"
TransportError == "TransportError"
OperationTimeout == "OperationTimeoutError"
TypeErr == "TypeError"
WaitForResultError == "WaitForResultError"
RequestMaximumTimeoutExceededError == "RequestMaximumTimeoutExceededError"
ParseError == "ParseError"
ExecutorReturnsUndefinedError == "ExecutorReturnsUndefinedError"
Errors == {ExecError, TransportError, OperationTimeout, TypeErr, WaitForResultError,
           RequestMaximumTimeoutExceededError, ParseError, ExecutorReturnsUndefinedError}

\* Executor.runExecutor: the executor's outcome, an undefined result raised as an error
runExecutor(out) == IF out = Undefined THEN ExecutorReturnsUndefinedError ELSE out

\* expiresIn values a caller may pass; NoOpt stands for an omitted option
NoOpt == -1
ExpiresInOpts == {NoOpt, 0, 1}

\* ------------------------------------------------------- serialization
\* JSON.stringify on the modelled values: NaN, Infinity and null all give the
\* text null, undefined gives undefined (no text)
JSONStringify(v) ==
    CASE v = Undefined -> Undefined
      [] v \in {"NaN", "Infinity", "null"} -> "null"
      [] v = "a" -> "\"a\""
      [] v = "b" -> "\"b\""

\* deserialize = JSON.parse on the texts JSONStringify produces
deserialize(s) ==
    CASE s = "null" -> "null"
      [] s = "\"a\"" -> "a"
      [] s = "\"b\"" -> "b"

\* ------------------------------------------------------------- records
NoRec == [absent |-> TRUE]

\* a Record constructor that reads the "permanent" write option
RecordPermanent_option(expiresIn, permanentOpt) == permanentOpt \/ expiresIn = 0
\* Record constructor: permanent is derived from expiresIn alone, the
\* "permanent" write option is not read
RecordPermanent(expiresIn, permanentOpt) == expiresIn = 0

ExpiresInOf(opt) == IF opt = NoOpt THEN 0 ELSE opt

createTag(tagName, t) == [name |-> tagName, version |-> t]

\* new Record(key, value, tags, options); value is kept as written to the
\* adapter (JSON.stringify(record.value)); orig and permOpt remember the
\* caller's value and the "permanent" option the writer passed
NewRecord(key, value, tagNames, expOpt, permanentOpt, t) ==
    [key |-> key,
     value |-> JSONStringify(value),
     orig |-> value,
     permOpt |-> permanentOpt,
     tags |-> IF value = Undefined THEN <<>>
              ELSE [i \in 1..Len(tagNames) |-> createTag(tagNames[i], t)],
     permanent |-> RecordPermanent(ExpiresInOf(expOpt), permanentOpt),
     expiresIn |-> ExpiresInOf(expOpt),
     createdAt |-> t]

\* an expiry test that does not look at record.permanent
IsExpired_noPermanent(rec, t) == t > rec.createdAt + rec.expiresIn
\* isExpired of the managers' isRecordValid
IsExpired(rec, t) == ~rec.permanent /\ t > rec.createdAt + rec.expiresIn

\* a comparator that takes equal versions for outdated
isTagOutdatedComparator_gt(recordTag, actualTag) ==
    recordTag.name = actualTag.name /\ recordTag.version > actualTag.version
\* BaseStorage.isOutdated / isTagsOutdated: the comparator given to differenceWith
isTagOutdatedComparator(recordTag, actualTag) ==
    recordTag.name = actualTag.name /\ recordTag.version >= actualTag.version

\* differenceWith(recordTags, actualTags, comparator).length !== 0
isTagsOutdated(recordTags, actualTags) ==
    \E i \in 1..Len(recordTags) :
        ~\E j \in 1..Len(actualTags) : isTagOutdatedComparator(recordTags[i], actualTags[j])

TagNamesOf(rec) == [i \in 1..Len(rec.tags) |-> rec.tags[i].name]

\* BaseStorage.getTags on a tag store: missing entries read as version 0
getTags(tagStore, names) ==
    [i \in 1..Len(names) |-> [name |-> names[i], version |-> tagStore[names[i]]]]

\* ------------------------------------------------------------ variables
VARIABLES
    now,        \* Date.now()
    status,     \* connection status published by the primary adapter
    sepTags,    \* BaseStorageOptions.tagsAdapter was given
    customWfr,  \* a waitForResult strategy bound to the storage was registered
    faulty,     \* the adapter operations that may fail while the transport is connected
    store,      \* primary adapter: record key -> envelope or NoRec
    locks,      \* primary adapter: lock keys present ("<key>_lock")
    ptags,      \* primary adapter: tag-version keys (0 = absent)
    ttags,      \* separate tags adapter: tag-version keys (0 = absent)
    queue,      \* BaseStorage.commandsQueue
    drains,     \* executeCommandsFromQueue runs in progress
    cl,         \* Cache.get callers
    rf,         \* RefreshAheadManager.refresh runs started by the callers
    ptagOps,    \* mget / mset of tag-version keys issued to the primary adapter
    stale,      \* history: a touch called after the record was written reached the store
    refreshAhead, \* the RefreshAheadManager: its refreshAheadFactor option and field
    ops,        \* withTimeout calls followed one by one: the promise, the timer, the race
    adp,        \* one StorageAdapter's lock entries and the result of the last lock call on it
    lastCommand, \* the cachedCommand call made last: what it did and how it ended
    lastSet,     \* the BaseStorage.set call made last: its arguments, the record, the outcome
    lastTagCall,  \* the BaseStorage.getTags or touch call made last and what it did
    keyspace  \* the entries of one adapter by effective key, and the storage call made last on them

cfg == <<sepTags, customWfr, faulty, refreshAhead, ops, adp, lastCommand, lastSet, lastTagCall,
          keyspace>>
vars == <<now, status, sepTags, customWfr, faulty, store, locks, ptags, ttags, queue,
          drains, cl, rf, ptagOps, stale, refreshAhead, ops, adp, lastCommand, lastSet,
          lastTagCall, keyspace>>

\* ------------------------------------------- RefreshAheadManager constructor
\* a refreshAheadFactor option: <<>> when omitted, <<n>> for the factor n / FactorDen
FactorOpts == {<<>>} \cup {<<n>> : n \in -1..(FactorDen + 1)}

\* this.refreshAheadFactor = options.refreshAheadFactor || DEFAULT_REFRESH_AHEAD_FACTOR
EffectiveFactor(opt) == IF opt = <<>> \/ opt[1] = 0 THEN FactorNum ELSE opt[1]

\* the range test of the constructor, made on the field
ConstructorThrows(opt) == EffectiveFactor(opt) <= 0 \/ EffectiveFactor(opt) >= FactorDen

\* the manager a Cache builds by default: no refreshAheadFactor option
DefaultRefreshAhead == [opt |-> <<>>, built |-> "ok", factor |-> FactorNum]

\* new RefreshAheadManager(options)
Construct ==
    /\ refreshAhead.built = "new"
    /\ refreshAhead' = [refreshAhead EXCEPT
                           !.built = IF ConstructorThrows(refreshAhead.opt) THEN "error" ELSE "ok",
                           !.factor = EffectiveFactor(refreshAhead.opt)]
    /\ UNCHANGED <<now, status, sepTags, customWfr, faulty, store, locks, ptags, ttags, queue,
                   drains, cl, rf, ptagOps, stale, ops, adp, lastCommand, lastSet, lastTagCall,
                   keyspace>>

\* an expire-soon test that leaves the factor out
isRecordExpireSoon_noFactor(rec, t) ==
    rec # NoRec /\ ~rec.permanent /\ t > rec.createdAt + rec.expiresIn
\* RefreshAheadManager.isRecordExpireSoon, this.refreshAheadFactor in tenths
isRecordExpireSoon(rec, t) ==
    /\ rec # NoRec
    /\ ~rec.permanent
    /\ FactorDen * t > FactorDen * rec.createdAt + refreshAhead.factor * rec.expiresIn


\* ------------------------------------------------------------- initial state
IdleCaller ==
    [pc |-> "idle", mgr |-> "refresh-ahead", strat |-> "runExecutor", key |-> "k1",
     tags |-> <<>>, exp |-> NoOpt, rec |-> NoRec, val |-> Undefined, res |-> Undefined,
     err |-> "", ran |-> 0, path |-> "", called |-> FALSE, entryConnected |-> TRUE,
     sawStale |-> FALSE, readAt |-> 0, tagsErr |-> FALSE, conc |-> TRUE, start |-> 0,
     wake |-> 0, polls |-> 0, pollAt |-> 0, seen |-> "", logged |-> FALSE, lockedAt |-> 0,
     sets |-> 0, rel |-> 0]

NoRefresh == [pc |-> "none", val |-> Undefined, ran |-> 0, lockedAt |-> 0]

\* failedIdx, okIdx and invoked are history: the snapshot positions that
\* raised (in the order they raised), those that resolved, and how often each
\* command was invoked
NoDrain ==
    [active |-> FALSE, snap |-> <<>>, pending |-> {}, failed |-> <<>>,
     failedIdx |-> <<>>, okIdx |-> {}, invoked |-> <<>>]

\* withTimeout(promise, timeout) before it is called: the promise P is pending
\* and the timer armed; outcome is what the returned promise settled with
OpIds == 1..MaxOps
NoOp == [st |-> "idle", start |-> 0, key |-> "k1", value |-> "a", p |-> "pending",
         pAt |-> 0, timer |-> "armed", outcome |-> ""]

\* The lock calls of one StorageAdapter, followed one by one: which adapter it is, the
\* call made last and what it returned, and the keys whose last acquireLock returned
\* true with no releaseLock since.
AdapterKinds == {"redis", "memcached", "test"}
NoAdapterCall == [kind |-> "redis", n |-> 0, op |-> "", key |-> "k1", result |-> FALSE,
                  err |-> "", held |-> {}, setAt |-> 0]

\* what one cachedCommand call did: whether fn was invoked, how fn ended ("" when it
\* was not invoked) and how the call ended ("ok" or the error it raised)
CommandResults ==
    [invoked : {0, 1}, fn : {"", "ok", "error", "timeout"},
     call : {"ok", TransportError, OperationTimeout}]
NoCommand == [flip |-> 0, names |-> <<>>, last |-> [invoked |-> 0, fn |-> "", call |-> "ok"]]

\* options.tags: absent, an array, or a function returning the array
TagsOpts ==
    {[kind |-> "none", names |-> <<>>], [kind |-> "array", names |-> <<"t2", "t1", "t2">>],
     [kind |-> "thunk", names |-> <<"t1">>]}
\* options.getTags: absent, or a function that returns an array, something that is not
\* an array (false), or undefined / null
GetTagsOpts ==
    {[kind |-> "none", names |-> <<>>], [kind |-> "nonarray", names |-> <<>>],
     [kind |-> "nullish", names |-> <<>>], [kind |-> "array", names |-> <<"t1", "t3">>]}

NoSetCall ==
    [value |-> Undefined, tags |-> [kind |-> "none", names |-> <<>>],
     getTags |-> [kind |-> "none", names |-> <<>>], expOpt |-> NoOpt, at |-> 0,
     record |-> NoRec, adapterSets |-> 0, result |-> "ok"]

\* one getTags or touch call: its argument, the tags it resolved to (getTags), the error
\* it raised ("" for none), the adapter calls it issued and the commands it queued;
\* emptyTouch is history: a touch([]) has been made
NoTagCall ==
    [flip |-> 0, op |-> "", names |-> <<>>, result |-> <<>>, err |-> "", calls |-> 0,
     queued |-> 0, emptyTouch |-> FALSE]

\* the entries of one adapter as (effective key, value) pairs, the prefix of the
\* BaseStorage on it, the last storage call, and, as history, the logical keys whose
\* lockKey returned true
NoKeyspace ==
    [prefix |-> <<>>, entries |-> {}, lockKeyed |-> {},
     last |-> [n |-> 0, op |-> "", key |-> <<>>, result |-> FALSE]]

InitStore ==
    /\ ops = [i \in OpIds |-> NoOp]
    /\ now = 1
    /\ store = [k \in Keys |-> NoRec]
    /\ locks = {}
    /\ ptags = [t \in TagNames |-> 0]
    /\ ttags = [t \in TagNames |-> 0]
    /\ queue = <<>>
    /\ drains = [d \in DrainIds |-> NoDrain]
    /\ cl = [c \in Callers |-> IdleCaller]
    /\ rf = [c \in Callers |-> NoRefresh]
    /\ ptagOps = {}
    /\ stale = [k \in Keys |-> FALSE]

InitState ==
    /\ InitStore
    /\ refreshAhead = DefaultRefreshAhead
    /\ adp = NoAdapterCall
    /\ lastCommand = NoCommand
    /\ lastSet = NoSetCall
    /\ lastTagCall = NoTagCall
    /\ keyspace = NoKeyspace

\* ------------------------------------------------------------ the adapters
\* BaseStorage constructor: this.tagsAdapter = options.tagsAdapter || options.adapter
TagsAdapterName_primary == "primary"
TagsAdapterName == IF sepTags THEN "tags" ELSE "primary"

TagStore == IF TagsAdapterName = "tags" THEN ttags ELSE ptags

\* Outcomes of one adapter call.  The primary adapter answers only while
\* connected; a call may fail with a transport error or with the
\* OperationTimeout of withTimeout.
Outcomes(adapter, op) ==
    IF adapter = "primary" /\ status # "CONNECTED"
    THEN {"error", "timeout"}
    ELSE IF op \in faulty THEN {"ok", "error", "timeout"} ELSE {"ok"}

ErrorOf(o) == IF o = "timeout" THEN OperationTimeout ELSE TransportError

\* a tag-version operation is recorded when it is issued to the primary adapter
Logged(adapter, op) == IF adapter = "primary" THEN ptagOps \cup {op} ELSE ptagOps

\* adapter.mset(values) on a tag store
MsetTags(tagStore, tags) ==
    [t \in TagNames |->
        IF \E i \in 1..Len(tags) : tags[i].name = t
        THEN (CHOOSE v \in {tags[i].version : i \in 1..Len(tags)} :
                 \E i \in 1..Len(tags) : tags[i].name = t /\ tags[i].version = v)
        ELSE tagStore[t]]

\* history: the records a touch of these tag names is meant to invalidate
Covered(names) ==
    {k \in Keys : store[k] # NoRec /\
        \E i \in 1..Len(store[k].tags), j \in 1..Len(names) : store[k].tags[i].name = names[j]}

Uncover(cmds, k) == [i \in 1..Len(cmds) |-> [cmds[i] EXCEPT !.covers = @ \ {k}]]

\* adapter.set of a record key; a fresh record is not covered by earlier touches
WriteRecord(k, rec) ==
    /\ store' = [store EXCEPT ![k] = rec]
    /\ stale' = [stale EXCEPT ![k] = FALSE]
    /\ queue' = Uncover(queue, k)
    /\ drains' = [d \in DrainIds |->
                    [drains[d] EXCEPT !.snap = Uncover(@, k), !.failed = Uncover(@, k)]]

\* BaseStorage.setTagVersions reaching the tags adapter
ApplyTags(cmd) ==
    /\ IF TagsAdapterName = "tags"
       THEN ttags' = MsetTags(ttags, cmd.params) /\ UNCHANGED ptags
       ELSE ptags' = MsetTags(ptags, cmd.params) /\ UNCHANGED ttags
    /\ stale' = [k \in Keys |-> stale[k] \/ k \in cmd.covers]

\* ------------------------------------------------------------- environment
Tick ==
    /\ now < MaxTime
    /\ now' = now + 1
    /\ UNCHANGED <<status, cfg, store, locks, ptags, ttags, queue, drains, cl, rf, ptagOps,
                   stale>>

\* "reconnecting" and "end" events of the transport
ConnectionLost(st) ==
    /\ st \in {"CONNECTING", "DISCONNECTED"}
    /\ status # st
    /\ status' = st
    /\ UNCHANGED <<now, cfg, store, locks, ptags, ttags, queue, drains, cl, rf, ptagOps,
                   stale>>

\* -------------------------------------------------------------- BaseStorage
\* Cache.get / Cache.set: defaultsDeep({}, options, { expiresIn: this.expiresIn }),
\* the Cache being built without expiresIn (EXPIRES_IN.day)
ComputedExpiresIn(expOpt) == IF expOpt = NoOpt THEN EXPIRES_IN_day ELSE expOpt

Command(names) ==
    [fn |-> "setTagVersions",
     params |-> [i \in 1..Len(names) |-> createTag(names[i], now)],
     covers |-> Covered(names)]

\* cachedCommand enqueues when the primary adapter is not CONNECTED
CommandIsQueued(st) == st # "CONNECTED"

\* a cachedCommand that re-queues after every failure
QueuedAfterFailure_any(o) == o # "ok"
\* cachedCommand re-queues an invocation that failed with OperationTimeout only
QueuedAfterFailure(o) == o = "timeout"

\* Cache.set -> manager.set -> BaseStorage.set -> adapter.set
CacheSet(k, v, mgr, tags, expOpt) ==
    /\ \E o \in Outcomes("primary", "set") :
        IF o = "ok"
        THEN WriteRecord(k, NewRecord(k, v, tags, ComputedExpiresIn(expOpt),
                                      mgr = "write-through", now))
        ELSE UNCHANGED <<store, stale, queue, drains>>
    /\ UNCHANGED <<now, status, cfg, locks, ptags, ttags, cl, rf, ptagOps>>

\* Cache.touch -> BaseStorage.touch -> cachedCommand(setTagVersions, tags.map(createTag))
\* cachedCommand(this.setTagVersions, tags.map(createTag)); r is what the call did
cachedCommand(names, r) ==
    IF CommandIsQueued(status)
    THEN /\ Len(queue) < MaxQueue
         /\ queue' = Append(queue, Command(names))
         /\ r = [invoked |-> 0, fn |-> "", call |-> "ok"]
         /\ UNCHANGED <<ptags, ttags, stale, ptagOps>>
    ELSE /\ ptagOps' = Logged(TagsAdapterName, "mset")
         /\ \E o \in Outcomes(TagsAdapterName, "mset") :
             IF o = "ok"
             THEN /\ ApplyTags(Command(names))
                  /\ r = [invoked |-> 1, fn |-> o, call |-> "ok"]
                  /\ UNCHANGED queue
             ELSE /\ UNCHANGED <<ptags, ttags, stale>>
                  /\ IF QueuedAfterFailure(o)
                     THEN /\ Len(queue) < MaxQueue
                          /\ queue' = Append(queue, Command(names))
                          /\ r = [invoked |-> 1, fn |-> o, call |-> "ok"]
                     ELSE /\ UNCHANGED queue
                          /\ r = [invoked |-> 1, fn |-> o, call |-> ErrorOf(o)]

Touch(names) ==
    /\ IF Len(names) = 0
       THEN UNCHANGED <<queue, ptags, ttags, stale, ptagOps>>
       ELSE \E r \in CommandResults : cachedCommand(names, r)
    /\ UNCHANGED <<now, status, cfg, store, locks, drains, cl, rf>>

\* a touch whose cachedCommand call is followed: what it did is kept in lastCommand
TouchCommand(names) ==
    /\ Len(names) > 0
    /\ \E r \in CommandResults :
          /\ cachedCommand(names, r)
          /\ lastCommand' = [flip |-> 1 - lastCommand.flip, names |-> names, last |-> r]
    /\ UNCHANGED <<now, status, sepTags, customWfr, faulty, refreshAhead, ops, adp, store,
                   locks, drains, cl, rf, lastSet, lastTagCall, keyspace>>

\* the snapshot executeCommandsFromQueue iterates over
DrainSnapshot(q) == q

\* the adapter's connect signal: the status becomes CONNECTED and the callback
\* registered by the BaseStorage constructor starts executeCommandsFromQueue,
\* which invokes every queued command before its first suspension
Connect ==
    /\ status # "CONNECTED"
    /\ status' = "CONNECTED"
    /\ IF Len(queue) = 0
       THEN UNCHANGED <<drains, ptagOps>>
       ELSE /\ ptagOps' = Logged(TagsAdapterName, "mset")
            /\ \E d \in DrainIds :
                /\ ~drains[d].active
                /\ \A e \in DrainIds : e < d => drains[e].active
                /\ drains' = [drains EXCEPT ![d] =
                      [active |-> TRUE,
                       snap |-> DrainSnapshot(queue),
                       pending |-> 1..Len(DrainSnapshot(queue)),
                       failed |-> <<>>,
                       failedIdx |-> <<>>,
                       okIdx |-> {},
                       invoked |-> [i \in 1..Len(DrainSnapshot(queue)) |-> 1]]]
    /\ UNCHANGED <<now, cfg, store, locks, ptags, ttags, queue, cl, rf, stale>>

\* a drain that forgets the commands that raised
Requeue_drop(failed, cmd) == failed
\* the commands executeCommandsFromQueue keeps after one more failure
Requeue(failed, cmd) == Append(failed, cmd)

\* one queued command settles: applied, or pushed to unsuccessfullyExecutedCommands
DrainCommand(d, i) ==
    /\ drains[d].active
    /\ i \in drains[d].pending
    /\ \E o \in Outcomes(TagsAdapterName, "mset") :
        IF o = "ok"
        THEN /\ ApplyTags(drains[d].snap[i])
             /\ drains' = [drains EXCEPT ![d].pending = @ \ {i}, ![d].okIdx = @ \cup {i}]
        ELSE /\ UNCHANGED <<ptags, ttags, stale>>
             /\ drains' = [drains EXCEPT ![d].pending = @ \ {i},
                                         ![d].failed = Requeue(@, drains[d].snap[i]),
                                         ![d].failedIdx = Append(@, i)]
    /\ UNCHANGED <<now, status, cfg, store, locks, queue, cl, rf, ptagOps>>

\* a drain that puts the commands that raised back in the order of the snapshot
DrainEnd_snapshotOrder(d) ==
    /\ drains[d].active
    /\ drains[d].pending = {}
    /\ LET dr == drains[d]
           raised == {dr.failedIdx[j] : j \in 1..Len(dr.failedIdx)}
           idx == SelectSeq([i \in 1..Len(dr.snap) |-> i], LAMBDA i : i \in raised)
       IN queue' = [j \in 1..Len(idx) |-> dr.snap[idx[j]]]
    /\ drains' = [drains EXCEPT ![d] = NoDrain]
    /\ UNCHANGED <<now, status, cfg, store, locks, ptags, ttags, cl, rf, ptagOps, stale>>

\* Promise.all settled: this.commandsQueue = unsuccessfullyExecutedCommands
DrainEnd(d) ==
    /\ drains[d].active
    /\ drains[d].pending = {}
    /\ queue' = drains[d].failed
    /\ drains' = [drains EXCEPT ![d] = NoDrain]
    /\ UNCHANGED <<now, status, cfg, store, locks, ptags, ttags, cl, rf, ptagOps, stale>>

\* ------------------------------------------------------------ Cache.get
\* lock entries of the primary adapter: the effective key of the record, or of
\* "refreshAhead:<key>", followed by "_lock"
LockOf(k) == <<"", k>>
RefreshLockOf(k) == <<"refreshAhead:", k>>

\* an executor resolves with a value, resolves with undefined, or raises
ExecOutcomes == ExecValues \cup {Undefined, ExecError}

\* a bypass on DISCONNECTED only
CacheBypasses_disconnected(st) == st = "DISCONNECTED"
\* Cache.get runs the executor itself unless the storage reports CONNECTED
CacheBypasses(st) == st # "CONNECTED"

Called(r) == [r EXCEPT !.called = TRUE]

\* the call settles with the outcome of an executor run outside the locked
\* section; the strategy's locals (start, wake) end with the call
Settled(r, out, path) ==
    [r EXCEPT !.pc = "done", !.ran = @ + 1, !.res = out, !.path = path,
              !.val = IF out = ExecError THEN @ ELSE out, !.start = 0, !.wake = 0,
              !.pollAt = 0]

Failed(r, e) == [r EXCEPT !.pc = "done", !.res = e, !.start = 0, !.wake = 0, !.pollAt = 0]

CacheGet(c, k, mgr, strat, tags, expOpt) ==
    /\ cl[c].pc = "idle"
    /\ cl' = [cl EXCEPT ![c] =
                [IdleCaller EXCEPT !.pc = IF CacheBypasses(status) THEN "bypass" ELSE "read",
                                   !.key = k, !.mgr = mgr, !.strat = strat, !.tags = tags,
                                   !.exp = ComputedExpiresIn(expOpt),
                                   !.entryConnected = (status = "CONNECTED"),
                                   !.conc = \A d \in Callers \ {c} : cl[d].pc # "done"]]
    /\ UNCHANGED <<now, status, cfg, store, locks, ptags, ttags, queue, drains, rf, ptagOps,
                   stale>>

\* Cache.get, storage not connected: return executor()
CacheGetBypass(c) ==
    /\ cl[c].pc = "bypass"
    /\ \E out \in ExecOutcomes : cl' = [cl EXCEPT ![c] = Settled(@, out, "bypass")]
    /\ UNCHANGED <<now, status, cfg, store, locks, ptags, ttags, queue, drains, rf, ptagOps,
                   stale>>

\* a validity test that checks the time for every manager
AfterRead_allTimed(mgr, rec, t) ==
    IF rec = NoRec THEN "lock"
    ELSE IF IsExpired(rec, t) THEN "lock"
    ELSE IF rec.value # Undefined THEN "hit" ELSE "lock"
\* the managers' isRecordValid up to the point where tag versions are needed:
\* "lock" = invalid, "tags" = tag versions must be read, "hit" = valid
AfterRead(mgr, rec, t) ==
    CASE mgr = "write-through" ->
            IF rec = NoRec THEN "lock"
            ELSE IF rec.value # Undefined THEN "hit" ELSE "lock"
      [] mgr = "read-through" ->
            IF rec = NoRec THEN "lock"
            ELSE IF IsExpired(rec, t) THEN "lock"
            ELSE IF Len(rec.tags) > 0 THEN "tags"
            ELSE IF rec.value # Undefined THEN "hit" ELSE "lock"
      [] mgr = "refresh-ahead" ->
            IF rec = NoRec THEN "lock"
            ELSE IF IsExpired(rec, t) THEN "lock"
            ELSE IF rec.value = Undefined THEN "lock"
            ELSE IF Len(rec.tags) > 0 THEN "tags" ELSE "hit"

\* tag versions that could not be read taken for unchanged
AfterTags_failValid(mgr, rec, ok, actualTags) ==
    IF ok /\ isTagsOutdated(rec.tags, actualTags) THEN "lock"
    ELSE IF rec.value # Undefined THEN "hit" ELSE "lock"
\* the rest of the validity check once getTags settled (ok = it resolved)
AfterTags(mgr, rec, ok, actualTags) ==
    IF ~ok THEN "lock"
    ELSE IF isTagsOutdated(rec.tags, actualTags) THEN "lock"
    ELSE IF rec.value # Undefined THEN "hit" ELSE "lock"

\* a hit returns deserialize(record.value); Refresh-Ahead also starts refresh
\* when the record expires soon
Proceed(c, r, verdict) ==
    IF verdict = "hit"
    THEN /\ cl' = [cl EXCEPT ![c] = [r EXCEPT !.pc = "done", !.path = "hit",
                                              !.res = deserialize(r.rec.value)]]
         /\ rf' = IF r.mgr = "refresh-ahead" /\ isRecordExpireSoon(r.rec, now)
                  THEN [rf EXCEPT ![c] = [NoRefresh EXCEPT !.pc = "rlock"]]
                  ELSE rf
    ELSE /\ cl' = [cl EXCEPT ![c] = [r EXCEPT !.pc = verdict]]
         /\ UNCHANGED rf

\* manager.get: record = await this.storage.get(key), then isRecordValid
StorageGet(c) ==
    /\ cl[c].pc = "read"
    /\ \E o \in Outcomes("primary", "get") :
        IF o = "ok"
        THEN LET r == [Called(cl[c]) EXCEPT !.rec = store[cl[c].key], !.readAt = now,
                                            !.sawStale = stale[cl[c].key]]
             IN Proceed(c, r, AfterRead(r.mgr, r.rec, now))
        ELSE /\ cl' = [cl EXCEPT ![c] = [Called(@) EXCEPT !.pc = "fallback"]]
             /\ UNCHANGED rf
    /\ UNCHANGED <<now, status, cfg, store, locks, ptags, ttags, queue, drains, ptagOps,
                   stale>>

\* a read failure answered with the single-flight update
GetFallback_update(c) ==
    /\ cl[c].pc = "fallback"
    /\ cl' = [cl EXCEPT ![c].pc = "lock"]
    /\ UNCHANGED <<now, status, cfg, store, locks, ptags, ttags, queue, drains, rf, ptagOps,
                   stale>>
\* manager.get, storage.get raised: return executor(); the Write-Through
\* manager returns runExecutor(executor)
GetFallback(c) ==
    /\ cl[c].pc = "fallback"
    /\ \E out \in ExecOutcomes :
        cl' = [cl EXCEPT ![c] =
                 [Settled(@, out, "fallback") EXCEPT
                     !.res = IF cl[c].mgr = "write-through" THEN runExecutor(out) ELSE out]]
    /\ UNCHANGED <<now, status, cfg, store, locks, ptags, ttags, queue, drains, rf, ptagOps,
                   stale>>

\* storage.getTags of the record's tag names (Read-Through isRecordValid,
\* BaseStorage.isOutdated for Refresh-Ahead)
ReadTags(c) ==
    /\ cl[c].pc = "tags"
    /\ ptagOps' = Logged(TagsAdapterName, "mget")
    /\ \E o \in Outcomes(TagsAdapterName, "mget") :
        Proceed(c, [Called(cl[c]) EXCEPT !.tagsErr = (o # "ok")],
                AfterTags(cl[c].mgr, cl[c].rec, o = "ok",
                          getTags(TagStore, TagNamesOf(cl[c].rec))))
    /\ UNCHANGED <<now, status, cfg, store, locks, ptags, ttags, queue, drains, stale>>

\* ------------------------------------- BaseManager.updateCacheAndGetResult
\* where a caller goes when lockKey resolved false: the named strategy
\* getLockedKeyRetrieveStrategy(strategyName = LockedKeyRetrieveStrategyTypes.runExecutor)
getLockedKeyRetrieveStrategy(strategyName) ==
    IF strategyName = Undefined THEN "runExecutor" ELSE strategyName

StrategyEntry(strat) ==
    IF getLockedKeyRetrieveStrategy(strat) = "waitForResult" THEN "wchk" ELSE "strat"

\* isKeySuccessfullyLocked = await this.storage.lockKey(context.key)
LockKey(c) ==
    /\ cl[c].pc = "lock"
    /\ \E o \in Outcomes("primary", "acquireLock") :
        IF o # "ok"
        THEN /\ cl' = [cl EXCEPT ![c] = [Called(@) EXCEPT !.pc = "lockerr"]]
             /\ UNCHANGED locks
        ELSE IF LockOf(cl[c].key) \notin locks
        THEN /\ locks' = locks \cup {LockOf(cl[c].key)}
             /\ cl' = [cl EXCEPT ![c] = [Called(@) EXCEPT !.pc = "exec", !.path = "locked",
                                                          !.lockedAt = now]]
        ELSE /\ cl' = [cl EXCEPT ![c] = [Called(@) EXCEPT !.pc = StrategyEntry(cl[c].strat),
                                                          !.path = "strategy",
                                                          !.start = now]]
             /\ UNCHANGED locks
    /\ UNCHANGED <<now, status, cfg, store, ptags, ttags, queue, drains, rf, ptagOps, stale>>

\* lockKey raised and the error is passed on to the caller
LockErrorExecutor_rethrow(c) ==
    /\ cl[c].pc = "lockerr"
    /\ cl' = [cl EXCEPT ![c] = [Failed(@, TransportError) EXCEPT !.path = "lockerr"]]
    /\ UNCHANGED <<now, status, cfg, store, locks, ptags, ttags, queue, drains, rf, ptagOps,
                   stale>>

\* lockKey raised: this.logger.error(...) and return context.executor()
LockErrorExecutor(c) ==
    /\ cl[c].pc = "lockerr"
    /\ \E out \in ExecOutcomes :
          cl' = [cl EXCEPT ![c] = [Settled(@, out, "lockerr") EXCEPT !.logged = TRUE]]
    /\ UNCHANGED <<now, status, cfg, store, locks, ptags, ttags, queue, drains, rf, ptagOps,
                   stale>>

\* a strategy that runs the executor and goes on to write what it returned
RunExecutorStrategy_andSet(c) ==
    /\ cl[c].pc = "strat"
    /\ \E out \in ExecOutcomes :
          cl' = [cl EXCEPT ![c] =
                   IF out = ExecError THEN Settled(@, out, "strategy")
                   ELSE [@ EXCEPT !.pc = "set", !.ran = @ + 1, !.val = out]]
    /\ UNCHANGED <<now, status, cfg, store, locks, ptags, ttags, queue, drains, rf, ptagOps,
                   stale>>

\* RunExecutorLockedKeyRetrieveStrategy.get: return context.executor()
RunExecutorStrategy(c) ==
    /\ cl[c].pc = "strat"
    /\ \E out \in ExecOutcomes : cl' = [cl EXCEPT ![c] = Settled(@, out, "strategy")]
    /\ UNCHANGED <<now, status, cfg, store, locks, ptags, ttags, queue, drains, rf, ptagOps,
                   stale>>

\* the locked section as a try block with no finally: a raising executor ends the call
LockedExecutor_noFinally(c) ==
    /\ cl[c].pc = "exec"
    /\ \E out \in ExecOutcomes :
        cl' = [cl EXCEPT ![c] =
                 IF out = ExecError
                 THEN [@ EXCEPT !.pc = "done", !.ran = @ + 1, !.err = ExecError,
                                !.res = ExecError]
                 ELSE [@ EXCEPT !.pc = "set", !.ran = @ + 1, !.val = out]]
    /\ UNCHANGED <<now, status, cfg, store, locks, ptags, ttags, queue, drains, rf, ptagOps,
                   stale>>

\* locked section: executorResult = await context.executor()
LockedExecutor(c) ==
    /\ cl[c].pc = "exec"
    /\ \E out \in ExecOutcomes :
        cl' = [cl EXCEPT ![c] =
                 IF out = ExecError
                 THEN [@ EXCEPT !.pc = "release", !.ran = @ + 1, !.err = ExecError]
                 ELSE [@ EXCEPT !.pc = "set", !.ran = @ + 1, !.val = out]]
    /\ UNCHANGED <<now, status, cfg, store, locks, ptags, ttags, queue, drains, rf, ptagOps,
                   stale>>

\* locked section: await this.set(context.key, executorResult, options); the
\* Write-Through manager's set adds permanent: true to the options
ManagerSet(c) ==
    /\ cl[c].pc = "set"
    /\ \E o \in Outcomes("primary", "set") :
        IF o = "ok"
        THEN /\ WriteRecord(cl[c].key,
                            NewRecord(cl[c].key, cl[c].val, cl[c].tags, cl[c].exp,
                                      cl[c].mgr = "write-through", now))
             /\ cl' = [cl EXCEPT ![c] = [Called(@) EXCEPT !.pc = "release", !.sets = @ + 1]]
        ELSE /\ cl' = [cl EXCEPT ![c] = [Called(@) EXCEPT !.pc = "release", !.sets = @ + 1,
                                                          !.err = ErrorOf(o)]]
             /\ UNCHANGED <<store, stale, queue, drains>>
    /\ UNCHANGED <<now, status, cfg, locks, ptags, ttags, rf, ptagOps>>

\* what the call settles with when releaseKey resolved: the error of the try
\* block if there was one, else the executor's result
AfterRelease(r) == IF r.err # "" THEN r.err ELSE r.val

\* finally: await this.storage.releaseKey(context.key); an error raised here
\* replaces the outcome of the try block
ReleaseKey(c) ==
    /\ cl[c].pc = "release"
    /\ \E o \in Outcomes("primary", "releaseLock") :
        IF o = "ok"
        THEN /\ locks' = locks \ {LockOf(cl[c].key)}
             /\ cl' = [cl EXCEPT ![c] = [Called(@) EXCEPT !.pc = "done", !.lockedAt = 0,
                                                          !.rel = @ + 1,
                                                          !.res = AfterRelease(cl[c])]]
        ELSE /\ cl' = [cl EXCEPT ![c] = [Failed(Called(@), ErrorOf(o)) EXCEPT !.rel = @ + 1]]
             /\ UNCHANGED locks
    /\ UNCHANGED <<now, status, cfg, store, ptags, ttags, queue, drains, rf, ptagOps, stale>>

\* the time the lock entry of key k was set: the latest successful lockKey
LockSetAt(k) ==
    LET times == {cl[c].lockedAt : c \in {d \in Callers : cl[d].key = k}}
    IN CHOOSE t \in times : \A u \in times : u <= t

\* the store drops a lock entry whose TTL (PX lockExpireTimeout) has elapsed
LockExpire(k) ==
    /\ LockOf(k) \in locks
    /\ LockSetAt(k) > 0
    /\ now >= LockSetAt(k) + LockExpireTimeout
    /\ locks' = locks \ {LockOf(k)}
    /\ UNCHANGED <<now, status, cfg, store, ptags, ttags, queue, drains, cl, rf, ptagOps,
                   stale>>

\* ------------------------------- WaitForResultLockedKeyRetrieveStrategy.get
\* the fields of a manager object; BaseManager binds storage.keyIsLocked and
\* storage.get to the manager (bind(this)), so "this.adapter" is looked up there
ManagerFields == {"storage", "lockedKeyRetrieveStrategies", "logger", "refreshAheadFactor"}

\* the strategy can reach the adapter: a registered strategy bound to the
\* storage, or a manager that has an adapter field
StrategyReachesAdapter == customWfr \/ "adapter" \in ManagerFields

\* a lock check (this.keyIsLocked) starts: history of the polls of a call
Polled(r) == [r EXCEPT !.polls = @ + 1, !.pollAt = now]

\* a deadline that has passed as soon as the call starts
DeadlinePassed_atStart(r) == ~(now < r.start)
\* the negation of Date.now() < startTime + this.maximumTimeout
DeadlinePassed(r) == ~(now < r.start + WfrMaximumTimeout)

\* a sleep that ends at once
SleepUntil_now == now
\* await timeout(this.requestTimeout): the earliest time the retry runs
SleepUntil == now + WfrRequestTimeout

\* const startTime = Date.now(): the first retryRequest runs in the same turn,
\* so the call's first deadline test reads the clock value startTime was given
Started(r) == IF r.polls = 0 THEN [r EXCEPT !.start = now] ELSE r

\* retryRequest up to the lock check; past the deadline it logs an error and
\* raises RequestMaximumTimeoutExceeded
WaitCheck(c) ==
    /\ cl[c].pc = "wchk"
    /\ IF DeadlinePassed(Started(cl[c]))
       THEN cl' = [cl EXCEPT ![c] =
                     [Failed(@, RequestMaximumTimeoutExceededError) EXCEPT !.logged = TRUE]]
       ELSE IF ~StrategyReachesAdapter
       THEN cl' = [cl EXCEPT ![c] = Failed(Polled(Started(@)), TypeErr)]
       ELSE \E o \in Outcomes("primary", "isLockExists") :
                cl' = [cl EXCEPT ![c] =
                         IF o # "ok" THEN Failed(Called(Polled(Started(@))), ErrorOf(o))
                         ELSE IF LockOf(cl[c].key) \in locks
                         THEN [Called(Polled(Started(@))) EXCEPT !.pc = "wsleep", !.seen = "locked",
                                                        !.wake = SleepUntil]
                         ELSE [Called(Polled(Started(@))) EXCEPT !.pc = "wget", !.seen = "unlocked"]]
    /\ UNCHANGED <<now, status, cfg, store, locks, ptags, ttags, queue, drains, rf, ptagOps,
                   stale>>

\* await timeout(this.requestTimeout); return retryRequest()
WaitSleep(c) ==
    /\ cl[c].pc = "wsleep"
    /\ now >= cl[c].wake
    /\ cl' = [cl EXCEPT ![c].pc = "wchk", ![c].wake = 0]
    /\ UNCHANGED <<now, status, cfg, store, locks, ptags, ttags, queue, drains, rf, ptagOps,
                   stale>>

\* deserialize of an undefined record value: JSON.parse raises, wrapped in a
\* ParseError (first definition of deserialize.ts), or the value is returned
\* as it is (second definition)
DeserializeUndefined == {ParseError, Undefined}

\* the key is not locked: rec = await this.getRecord(context.key)
WaitGetRecord(c) ==
    /\ cl[c].pc = "wget"
    /\ \E o \in Outcomes("primary", "get"), u \in DeserializeUndefined :
        cl' = [cl EXCEPT ![c] =
                 IF o # "ok" THEN Failed(Called(@), ErrorOf(o))
                 ELSE IF store[cl[c].key] = NoRec
                 THEN Failed([Called(@) EXCEPT !.rec = NoRec], WaitForResultError)
                 ELSE [Called(@) EXCEPT !.pc = "done", !.rec = store[cl[c].key],
                                        !.res = IF store[cl[c].key].value = Undefined THEN u
                                                ELSE deserialize(store[cl[c].key].value),
                                        !.start = 0, !.wake = 0, !.pollAt = 0]]
    /\ UNCHANGED <<now, status, cfg, store, locks, ptags, ttags, queue, drains, rf, ptagOps,
                   stale>>

\* ----------------------------------------------- RefreshAheadManager.refresh
RefreshLock(c) ==
    /\ rf[c].pc = "rlock"
    /\ \E o \in Outcomes("primary", "acquireLock") :
        IF o = "ok" /\ RefreshLockOf(cl[c].key) \notin locks
        THEN /\ locks' = locks \cup {RefreshLockOf(cl[c].key)}
             /\ rf' = [rf EXCEPT ![c].pc = "rexec", ![c].lockedAt = now]
        ELSE /\ rf' = [rf EXCEPT ![c].pc = "none"]
             /\ UNCHANGED locks
    /\ UNCHANGED <<now, status, cfg, store, ptags, ttags, queue, drains, cl, ptagOps, stale>>

RefreshExecutor(c) ==
    /\ rf[c].pc = "rexec"
    /\ \E out \in ExecOutcomes :
        rf' = [rf EXCEPT ![c] =
                 IF out = ExecError THEN [@ EXCEPT !.pc = "rrel", !.ran = @ + 1]
                 ELSE [@ EXCEPT !.pc = "rset", !.ran = @ + 1, !.val = out]]
    /\ UNCHANGED <<now, status, cfg, store, locks, ptags, ttags, queue, drains, cl, ptagOps,
                   stale>>

\* await this.storage.set(key, executorResult, options)
RefreshSet(c) ==
    /\ rf[c].pc = "rset"
    /\ rf' = [rf EXCEPT ![c].pc = "rrel"]
    /\ \E o \in Outcomes("primary", "set") :
        IF o = "ok"
        THEN WriteRecord(cl[c].key,
                         NewRecord(cl[c].key, rf[c].val, cl[c].tags, cl[c].exp, FALSE, now))
        ELSE UNCHANGED <<store, stale, queue, drains>>
    /\ UNCHANGED <<now, status, cfg, locks, ptags, ttags, cl, ptagOps>>

RefreshRelease(c) ==
    /\ rf[c].pc = "rrel"
    /\ rf' = [rf EXCEPT ![c].pc = "none", ![c].lockedAt = 0]
    /\ \E o \in Outcomes("primary", "releaseLock") :
        locks' = IF o = "ok" THEN locks \ {RefreshLockOf(cl[c].key)} ELSE locks
    /\ UNCHANGED <<now, status, cfg, store, ptags, ttags, queue, drains, cl, ptagOps, stale>>

\* ------------------------------------------------------------ specifications
TagLists == {<<>>, <<"t1">>}
AdapterOps == {"get", "set", "mget", "mset", "acquireLock", "releaseLock", "isLockExists"}

QueueSteps ==
    \/ \E d \in DrainIds : \E i \in 1..MaxQueue : DrainCommand(d, i)
    \/ \E d \in DrainIds : DrainEnd(d)
    \/ \E tg \in TagLists : Touch(tg)

Writes ==
    \E k \in Keys, v \in Values \cup {Undefined}, m \in Managers, tg \in TagLists,
       e \in ExpiresInOpts :
        CacheSet(k, v, m, tg, e)

HitMissSteps(c) ==
    \/ StorageGet(c)
    \/ ReadTags(c)
    \/ LockKey(c)
    \/ LockedExecutor(c)
    \/ ManagerSet(c)
    \/ ReleaseKey(c)

FailureSteps(c) ==
    \/ CacheGetBypass(c)
    \/ GetFallback(c)
    \/ LockErrorExecutor(c)

RefreshSteps(c) ==
    \/ RefreshLock(c)
    \/ RefreshExecutor(c)
    \/ RefreshSet(c)
    \/ RefreshRelease(c)

StrategySteps(c) ==
    \/ RunExecutorStrategy(c)
    \/ WaitCheck(c)
    \/ WaitSleep(c)
    \/ WaitGetRecord(c)

\* Spec: Cache.set, Cache.touch and the clock prepare the store, then one
\* Cache.get runs against it; the connection status is the one the transport
\* has, and adapter calls may fail or not
Init ==
    /\ InitState
    /\ status \in Statuses
    /\ sepTags = FALSE
    /\ customWfr = FALSE
    /\ faulty \in {{}, AdapterOps \ {"mset"}}

Next ==
    \/ Tick
    \/ cl[1].pc = "idle" /\ Writes
    \/ cl[1].pc = "idle" /\ \E tg \in TagLists : Touch(tg)
    \/ \E k \in Keys, m \in Managers, tg \in TagLists, e \in ExpiresInOpts :
          CacheGet(1, k, m, "runExecutor", tg, e)
    \/ HitMissSteps(1)
    \/ FailureSteps(1)
    \/ RefreshSteps(1)

Spec == Init /\ [][Next]_vars

\* SpecQueue: BaseStorage.touch and the offline queue under connection changes
\* and failing tag writes; the transport reconnects once the previous drain
\* has settled
InitQueue ==
    /\ InitState
    /\ status \in {"CONNECTED", "DISCONNECTED"}
    /\ sepTags \in BOOLEAN
    /\ customWfr = FALSE
    /\ faulty = {"mset"}

NextQueue ==
    \/ Tick
    \/ \E st \in {"DISCONNECTED"} : ConnectionLost(st)
    \/ (\A d \in DrainIds : ~drains[d].active) /\ Connect
    \/ QueueSteps

SpecQueue == InitQueue /\ [][NextQueue]_vars

\* SpecTags: a BaseStorage built with a separate tagsAdapter, used by sets,
\* touches, drains and one Cache.get at a time
InitTags ==
    /\ InitState
    /\ status = "CONNECTED"
    /\ sepTags = TRUE
    /\ customWfr = FALSE
    /\ faulty = {"mset", "mget"}

Quiet == queue = <<>> /\ \A d \in DrainIds : ~drains[d].active

NextTags ==
    \/ cl[1].pc = "idle" /\ Tick
    \/ cl[1].pc = "idle" /\ \E st \in {"DISCONNECTED"} : ConnectionLost(st)
    \/ cl[1].pc = "idle" /\ (\A d \in DrainIds : ~drains[d].active) /\ Connect
    \/ \E d \in DrainIds, i \in 1..MaxQueue : DrainCommand(d, i)
    \/ \E d \in DrainIds : DrainEnd(d)
    \/ cl[1].pc = "idle" /\ \E tg \in TagLists : Touch(tg)
    \/ cl[1].pc = "idle" /\ \E k \in Keys : CacheSet(k, "a", "read-through", <<"t1">>, NoOpt)
    \/ Quiet /\ \E k \in Keys, m \in Managers : CacheGet(1, k, m, "runExecutor", <<"t1">>, NoOpt)
    \/ CacheGetBypass(1)
    \/ HitMissSteps(1)

SpecTags == InitTags /\ [][NextTags]_vars

\* SpecFlight: up to NCallers concurrent Cache.get calls on one key, through
\* one manager and one strategy, against a connected adapter whose calls
\* succeed; the callers being alike, they start in the order of their
\* numbers, and the clock advances while a caller waits for the lock holder
InitFlight ==
    /\ InitState
    /\ status = "CONNECTED"
    /\ sepTags = FALSE
    /\ customWfr \in BOOLEAN
    /\ faulty = {}

NextFlight ==
    \/ (\E c \in Callers : cl[c].pc \in {"wchk", "wsleep"}) /\ Tick
    \/ \E c \in Callers, k \in Keys, m \in Managers, st \in StrategyOpts \ {"runExecutor"} :
          /\ \A d \in Callers : d < c => cl[d].pc # "idle"
          /\ \A d \in Callers : cl[d].pc # "idle" => (cl[d].mgr = m /\ cl[d].strat = st)
          /\ CacheGet(c, k, m, st, <<>>, NoOpt)
    \/ \E c \in Callers : StorageGet(c)
    \/ \E c \in Callers : LockKey(c)
    \/ \E c \in Callers : LockedExecutor(c)
    \/ \E c \in Callers : ManagerSet(c)
    \/ \E c \in Callers : ReleaseKey(c)
    \/ \E c \in Callers : StrategySteps(c)

SpecFlight == InitFlight /\ [][NextFlight]_vars

\* ------------------------------------------------------------- properties
RECURSIVE SumRan(_)
SumRan(S) == IF S = {} THEN 0
             ELSE LET c == CHOOSE x \in S : TRUE IN cl[c].ran + SumRan(S \ {c})

\* the calls overlapped, all used waitForResult, and every executor run
\* returned a defined value
ConcurrentWaitForResult ==
    \A c \in Callers :
        /\ cl[c].pc = "done"
        /\ cl[c].conc
        /\ cl[c].strat = "waitForResult"
        /\ cl[c].ran > 0 => cl[c].val \in ExecValues

\* C1: NCallers concurrent get calls on one key that misses, with the
\* waitForResult strategy: the executor is invoked exactly once and all calls
\* return the same value.
C1_SingleFlight ==
    ConcurrentWaitForResult =>
        /\ SumRan(Callers) = 1
        /\ \A c, d \in Callers : cl[c].res = cl[d].res

\* C2: once a touch of a tag has reached the store, a Read-Through or
\* Refresh-Ahead get of a key whose record was written before the touch and
\* carries the tag runs the executor instead of returning the stored value,
\* whatever the clock read at the set and at the touch (the same millisecond
\* included).
C2_Invalidation ==
    \A c \in Callers :
        (/\ cl[c].pc = "done"
         /\ cl[c].mgr \in {"read-through", "refresh-ahead"}
         /\ cl[c].sawStale) => (cl[c].path # "hit" /\ cl[c].ran >= 1)

\* C3: the stored version of a tag never decreases, across touches, timeouts
\* and queue drains.
C3_TagMonotonic == [][\A t \in TagNames : TagStore'[t] >= TagStore[t]]_vars

\* what one executeCommandsFromQueue run has done so far: every command of the
\* snapshot invoked once, each one pending, resolved or raised, and the
\* commands kept for the queue are the ones that raised, (fn, params) unchanged
DrainAccounting(d) ==
    LET dr == drains[d]
        n == Len(dr.snap)
        raised == {dr.failedIdx[j] : j \in 1..Len(dr.failedIdx)}
    IN /\ Len(dr.invoked) = n
       /\ \A i \in 1..n : dr.invoked[i] = 1
       /\ dr.pending \cup dr.okIdx \cup raised = 1..n
       /\ dr.pending \cap dr.okIdx = {}
       /\ dr.pending \cap raised = {}
       /\ dr.okIdx \cap raised = {}
       /\ Cardinality(raised) = Len(dr.failedIdx)
       /\ Len(dr.failed) = Len(dr.failedIdx)
       /\ \A j \in 1..Len(dr.failed) :
              /\ dr.failed[j].fn = dr.snap[dr.failedIdx[j]].fn
              /\ dr.failed[j].params = dr.snap[dr.failedIdx[j]].params

\* C4: while the primary adapter is not CONNECTED a touch of a non-empty tag
\* list appends exactly one command and changes no stored tag version; a
\* connect invokes every queued command once; the commands that raise are the
\* queue afterwards with the same (fn, params), the ones that resolve are gone.
C4_OfflineQueue ==
    /\ [](\A d \in DrainIds : drains[d].active => DrainAccounting(d))
    /\ [][(status # "CONNECTED" /\ UNCHANGED <<status, now, drains>>) =>
             /\ Len(queue') = Len(queue) + 1
             /\ SubSeq(queue', 1, Len(queue)) = queue
             /\ queue'[Len(queue')].fn = "setTagVersions"
             /\ Len(queue'[Len(queue')].params) > 0
             /\ UNCHANGED <<store, locks, ptags, ttags>>]_vars
    /\ [][\A d \in DrainIds :
             /\ (~drains[d].active /\ drains'[d].active) =>
                    /\ queue # <<>>
                    /\ drains'[d].snap = queue
                    /\ drains'[d].pending = 1..Len(queue)
             /\ (drains[d].active /\ ~drains'[d].active) =>
                    /\ drains[d].pending = {}
                    /\ queue' = drains[d].failed]_vars

\* C5: a Cache.get entered while the storage is not CONNECTED returns the
\* executor's outcome, calls no adapter operation, and leaves records, locks,
\* tag versions and the queue as they were.
C5_Bypass ==
    /\ [](\A c \in Callers : ~cl[c].entryConnected =>
             /\ ~cl[c].called
             /\ cl[c].pc \in {"bypass", "done"}
             /\ cl[c].pc = "done" =>
                    /\ cl[c].ran = 1
                    /\ cl[c].res = ExecError \/ cl[c].res = cl[c].val)
    /\ [][\A c \in Callers : (~cl'[c].entryConnected /\ cl'[c] # cl[c]) =>
             UNCHANGED <<store, locks, ptags, ttags, queue>>]_vars

\* C6: every record written through the Write-Through manager is permanent.
C6_WriteThroughPermanent ==
    \A k \in Keys : (store[k] # NoRec /\ store[k].permOpt) => store[k].permanent

\* C7: a manager get whose executor returned a value returns that value,
\* whatever the storage, tags or lock operations did.
C7_Transparent ==
    \A c \in Callers : (cl[c].pc = "done" /\ cl[c].val \in ExecValues) => cl[c].res = cl[c].val

\* the get of caller c followed a set of its key with nothing in between: the
\* record it read was written at the time of the read, through the manager
\* the get uses, and no touch took effect after the write
ReadRightAfterSet(c) ==
    /\ faulty = {}
    /\ cl[c].pc = "done"
    /\ cl[c].rec # NoRec
    /\ cl[c].rec.orig # Undefined
    /\ cl[c].rec.createdAt = cl[c].readAt
    /\ cl[c].rec.permOpt = (cl[c].mgr = "write-through")
    /\ ~cl[c].sawStale

C9_TagsIsolation ==
    sepTags => (ptagOps = {} /\ \A t \in TagNames : ptags[t] = 0)

\* the record caller c read is present, not expired at the read (or
\* permanent), has a defined value, and no stored version of its tags is newer
ValidAtRead(c) ==
    LET rec == cl[c].rec
    IN /\ rec # NoRec
       /\ rec.permanent \/ cl[c].readAt <= rec.createdAt + rec.expiresIn
       /\ rec.value # Undefined
       /\ \A i \in 1..Len(rec.tags) : TagStore[rec.tags[i].name] <= rec.tags[i].version

SingleFlightPaths == {"locked", "strategy", "lockerr"}

\* C10 as stated: a Read-Through get returns the cached value without running
\* the executor exactly when the record is valid, and otherwise runs the
\* single-flight update.
C10_ValidityExact ==
    \A c \in Callers :
        (cl[c].pc = "done" /\ cl[c].mgr = "read-through" /\ cl[c].entryConnected) =>
            /\ cl[c].path = "hit" <=> ValidAtRead(c)
            /\ cl[c].path # "hit" => cl[c].path \in SingleFlightPaths

\* C10: a Read-Through get returns the cached value without running the
\* executor or taking the lock exactly when the record was read, is valid and
\* its tag versions were read; it runs the executor directly exactly when
\* reading the record raised, and the single-flight update in every other case.
C10_Validity ==
    \A c \in Callers :
        (cl[c].pc = "done" /\ cl[c].mgr = "read-through" /\ cl[c].entryConnected) =>
            LET read == cl[c].readAt > 0
            IN /\ cl[c].path = "hit" <=> (read /\ ValidAtRead(c) /\ ~cl[c].tagsErr)
               /\ cl[c].path = "hit" =>
                      (cl[c].ran = 0 /\ cl[c].res = deserialize(cl[c].rec.value))
               /\ cl[c].path = "fallback" <=> ~read
               /\ cl[c].path = "fallback" => cl[c].ran = 1
               /\ cl[c].path \notin {"hit", "fallback"} => cl[c].path \in SingleFlightPaths

\* reachable cases
C4_Witness ==
    \E d \in DrainIds :
        /\ drains[d].active /\ drains[d].pending = {}
        /\ drains[d].okIdx # {} /\ drains[d].failed # <<>>

C5_Witness ==
    \E c \in Callers :
        /\ cl[c].pc = "done" /\ ~cl[c].entryConnected /\ cl[c].res \in ExecValues

C9_Witness ==
    /\ sepTags
    /\ \E t \in TagNames : ttags[t] > 1
    /\ \E c \in Callers : cl[c].path = "hit" /\ Len(cl[c].rec.tags) > 0

C10_Witness ==
    \E c \in Callers :
        /\ cl[c].pc = "done" /\ cl[c].mgr = "read-through" /\ cl[c].tagsErr
        /\ ValidAtRead(c) /\ cl[c].path \in SingleFlightPaths

\* C11: a Write-Through get that read a record with a defined value returns
\* its decoded value without running the executor, expired or tag-outdated as
\* the record may be; it runs the single-flight update only when the record
\* is absent or its value is undefined.
C11_WriteThroughValidity ==
    \A c \in Callers :
        (cl[c].pc = "done" /\ cl[c].mgr = "write-through" /\ cl[c].entryConnected) =>
            /\ (cl[c].readAt > 0 /\ cl[c].rec # NoRec /\ cl[c].rec.value # Undefined) =>
                   /\ cl[c].path = "hit"
                   /\ cl[c].ran = 0
                   /\ cl[c].res = deserialize(cl[c].rec.value)
            /\ cl[c].path \in SingleFlightPaths =>
                   (cl[c].readAt > 0 /\ (cl[c].rec = NoRec \/ cl[c].rec.value = Undefined))

C11_Witness ==
    \E c \in Callers :
        /\ cl[c].pc = "done" /\ cl[c].mgr = "write-through" /\ cl[c].path = "hit"
        /\ ~cl[c].rec.permanent
        /\ cl[c].readAt > cl[c].rec.createdAt + cl[c].rec.expiresIn
        /\ \E i \in 1..Len(cl[c].rec.tags) :
               TagStore[cl[c].rec.tags[i].name] > cl[c].rec.tags[i].version

\* C12: a Refresh-Ahead get that finds its record valid returns the value of
\* the record it read; it starts a refresh exactly when the record expires
\* soon (not permanent and now > createdAt + expiresIn * factor), returns
\* before the refresh has done anything, and nothing the refresh does later
\* (lock, executor, set or release failing) changes what the get returned.
C12_RefreshAheadHit ==
    /\ [](\A c \in Callers :
             (cl[c].pc = "done" /\ cl[c].mgr = "refresh-ahead" /\ cl[c].path = "hit") =>
                 (cl[c].ran = 0 /\ cl[c].res = deserialize(cl[c].rec.value)))
    /\ [][\A c \in Callers : cl[c].pc = "done" => cl'[c] = cl[c]]_vars
    /\ [][\A c \in Callers :
             (/\ cl[c].pc # "done" /\ cl'[c].pc = "done"
              /\ cl'[c].mgr = "refresh-ahead" /\ cl'[c].path = "hit") =>
                 LET rec == cl'[c].rec
                     soon == /\ ~rec.permanent
                             /\ FactorDen * now > FactorDen * rec.createdAt
                                                   + FactorNum * rec.expiresIn
                 IN /\ soon => (rf'[c].pc = "rlock" /\ rf'[c].ran = 0)
                    /\ ~soon => rf'[c] = NoRefresh]_vars

C12_Witness ==
    \E c \in Callers :
        /\ cl[c].pc = "done" /\ cl[c].mgr = "refresh-ahead" /\ cl[c].path = "hit"
        /\ rf[c].pc = "none" /\ rf[c].ran = 1
        /\ store[cl[c].key] = cl[c].rec

\* SpecFactor: a RefreshAheadManager is built with a refreshAheadFactor option
\* and, when construction succeeds, serves sets and one get on a connected
\* adapter whose calls succeed
InitFactor ==
    /\ InitStore
    /\ adp = NoAdapterCall
    /\ lastCommand = NoCommand
    /\ lastSet = NoSetCall
    /\ lastTagCall = NoTagCall
    /\ keyspace = NoKeyspace
    /\ status = "CONNECTED"
    /\ sepTags = FALSE
    /\ customWfr = FALSE
    /\ faulty = {}
    /\ \E o \in FactorOpts : refreshAhead = [opt |-> o, built |-> "new", factor |-> 0]

NextFactor ==
    \/ Construct
    \/ refreshAhead.built = "ok" /\ Tick
    \/ refreshAhead.built = "ok" /\ cl[1].pc = "idle" /\
          \E k \in Keys, e \in ExpiresInOpts : CacheSet(k, "a", "refresh-ahead", <<>>, e)
    \/ refreshAhead.built = "ok" /\
          \E k \in Keys, e \in ExpiresInOpts : CacheGet(1, k, "refresh-ahead", "runExecutor", <<>>, e)
    \/ StorageGet(1)
    \/ LockKey(1)
    \/ LockedExecutor(1)
    \/ ManagerSet(1)
    \/ ReleaseKey(1)
    \/ RefreshSteps(1)

SpecFactor == InitFactor /\ [][NextFactor]_vars

\* C13: building a RefreshAheadManager with a finite refreshAheadFactor f
\* fails when f <= 0 or f >= 1 (f = 0 included) and succeeds when 0 < f < 1.
C13_FactorRange ==
    (refreshAhead.built # "new" /\ refreshAhead.opt # <<>>) =>
        (refreshAhead.built = "error" <=>
            (refreshAhead.opt[1] <= 0 \/ refreshAhead.opt[1] >= FactorDen))

\* the executor of the call resolved with undefined
ResolvedUndefined(r) ==
    r.ran > 0 /\ r.val = Undefined /\ r.err # ExecError /\ r.res # ExecError

\* C14: an executor that resolves with undefined makes get fail with
\* ExecutorReturnsUndefined on every path that runs it, and no record with an
\* undefined value is written: no call is past a storage.set that wrote the
\* undefined result, and no refresh is about to write one.
C14_UndefinedRejected ==
    \A c \in Callers :
        /\ (cl[c].pc = "done" /\ ResolvedUndefined(cl[c])) =>
               cl[c].res = ExecutorReturnsUndefinedError
        /\ ~(cl[c].pc = "release" /\ cl[c].err = "" /\ cl[c].val = Undefined
             /\ store[cl[c].key] # NoRec /\ store[cl[c].key].value = Undefined)
        /\ ~(rf[c].pc = "rset" /\ rf[c].val = Undefined)

\* SpecWait: SpecFlight's callers under the waitForResult strategy and the
\* Read-Through manager, with lock checks and reads that may fail
InitWait ==
    /\ InitState
    /\ status = "CONNECTED"
    /\ sepTags = FALSE
    /\ customWfr \in BOOLEAN
    /\ faulty \in {{}, {"isLockExists", "get"}}

NextWait ==
    \/ (\E c \in Callers : cl[c].pc \in {"wchk", "wsleep"}) /\ Tick
    \/ \E c \in Callers, k \in Keys :
          /\ \A d \in Callers : d < c => cl[d].pc # "idle"
          /\ CacheGet(c, k, "read-through", "waitForResult", <<>>, NoOpt)
    \/ \E c \in Callers : StorageGet(c)
    \/ \E c \in Callers : GetFallback(c)
    \/ \E c \in Callers : LockKey(c)
    \/ \E c \in Callers : LockedExecutor(c)
    \/ \E c \in Callers : ManagerSet(c)
    \/ \E c \in Callers : ReleaseKey(c)
    \/ \E c \in Callers : WaitCheck(c)
    \/ \E c \in Callers : WaitSleep(c)
    \/ \E c \in Callers : WaitGetRecord(c)

SpecWait == InitWait /\ [][NextWait]_vars

\* a call that went through WaitForResultLockedKeyRetrieveStrategy.get and ended
WaitEnded(c) ==
    cl[c].pc = "done" /\ cl[c].strat = "waitForResult" /\ cl[c].path = "strategy"

InitLocked ==
    /\ InitState
    /\ status = "CONNECTED"
    /\ sepTags = FALSE
    /\ customWfr = TRUE
    /\ faulty \in {{}, {"isLockExists"}}

Waiting(c) == cl[c].pc \in {"wchk", "wsleep"}

\* the clock, followed as far as the last sleep of a waiting call can end; the
\* steps of a call up to its wait take no time
WaitTick ==
    /\ \A c \in Callers : cl[c].pc \notin {"read", "lock"}
    /\ \E c \in Callers :
          Waiting(c) /\ now < cl[c].start + WfrMaximumTimeout + WfrRequestTimeout
    /\ now' = now + 1
    /\ UNCHANGED <<status, cfg, store, locks, ptags, ttags, queue, drains, cl, rf, ptagOps,
                   stale>>

NextLocked ==
    \/ WaitTick
    \/ \E c \in Callers, k \in Keys, m \in Managers :
          /\ \A d \in Callers : d < c => cl[d].pc \in {"exec", "done"}
          /\ \A d \in Callers : cl[d].pc # "idle" => cl[d].mgr = m
          /\ CacheGet(c, k, m, "waitForResult", <<>>, NoOpt)
    \/ \E c \in Callers : StorageGet(c)
    \/ \E c \in Callers : LockKey(c)
    \/ \E c \in Callers : WaitCheck(c)
    \/ \E c \in Callers : WaitSleep(c)

SpecLocked ==
    /\ InitLocked
    /\ [][NextLocked]_vars
    /\ WF_vars(WaitTick)
    /\ \A c \in Callers : WF_vars(StorageGet(c)) /\ WF_vars(LockKey(c))
    /\ \A c \in Callers : WF_vars(WaitCheck(c)) /\ WF_vars(WaitSleep(c))

\* ceil(maximumTimeout / requestTimeout)
MaxPolls == (WfrMaximumTimeout + WfrRequestTimeout - 1) \div WfrRequestTimeout

\* C16: WaitForResult terminates. For a key that stays locked, a waiting call
\* ends, and ends with RequestMaximumTimeoutExceeded when its lock checks
\* resolve; no poll starts
\* at or after startTime + maximumTimeout; consecutive polls of a call are at
\* least requestTimeout apart; a call makes at most
\* ceil(maximumTimeout / requestTimeout) lock checks.
C16_Termination ==
    /\ [](\A c \in Callers :
            /\ cl[c].polls <= MaxPolls
            /\ cl[c].pc \in {"wsleep", "wget"} => cl[c].pollAt < cl[c].start + WfrMaximumTimeout)
    /\ [][\A c \in Callers :
            (cl'[c].polls = cl[c].polls + 1 /\ cl[c].polls >= 1) =>
                now >= cl[c].pollAt + WfrRequestTimeout]_vars
    /\ \A c \in Callers :
          Waiting(c)
              ~> /\ cl[c].pc = "done"
                 /\ \/ cl[c].res = RequestMaximumTimeoutExceededError
                    \/ faulty # {} /\ cl[c].res \in {TransportError, OperationTimeout}

\* a call made the largest number of lock checks, all on a locked key, and
\* ended with RequestMaximumTimeoutExceeded while the key was still locked
C16_Witness ==
    \E c \in Callers :
        /\ WaitEnded(c) /\ cl[c].res = RequestMaximumTimeoutExceededError
        /\ cl[c].polls = MaxPolls /\ cl[c].seen = "locked"
        /\ LockOf(cl[c].key) \in locks

\* SpecLease: concurrent Cache.get calls through the Read-Through manager and
\* the runExecutor strategy on a connected adapter whose calls succeed, with
\* the clock running and lock entries expiring as their TTL elapses
InitLease ==
    /\ InitState
    /\ status = "CONNECTED"
    /\ sepTags = FALSE
    /\ customWfr = FALSE
    /\ faulty = {}

NextLease ==
    \/ Tick
    \/ \E c \in Callers, k \in Keys :
          /\ \A d \in Callers : d < c => cl[d].pc # "idle"
          /\ CacheGet(c, k, "read-through", "runExecutor", <<>>, NoOpt)
    \/ \E c \in Callers : StorageGet(c)
    \/ \E c \in Callers : LockKey(c)
    \/ \E c \in Callers : LockedExecutor(c)
    \/ \E c \in Callers : ManagerSet(c)
    \/ \E c \in Callers : ReleaseKey(c)
    \/ \E c \in Callers : RunExecutorStrategy(c)
    \/ \E k \in Keys : LockExpire(k)

SpecLease == InitLease /\ [][NextLease]_vars

\* the call is between its successful lockKey and its releaseKey
InLockedSection(c) == cl[c].pc \in {"exec", "set", "release"}

\* C17: across concurrent callers racing for the same key exactly one acquires
\* lockKey and runs the executor inside the locked section, every other caller
\* goes through its strategy, and at no time are two callers both between a
\* successful lockKey(k) and their releaseKey(k).
C17_MutualExclusion ==
    \A c, d \in Callers :
        (c # d /\ cl[c].key = cl[d].key /\ cl[c].conc /\ cl[d].conc) =>
            /\ ~(cl[c].path = "locked" /\ cl[d].path = "locked")
            /\ ~(InLockedSection(c) /\ InLockedSection(d))

\* ------------------------------------------------------------- withTimeout
\* Promise.race: the returned promise takes the first settlement only
Race(o, settlement) == IF o.outcome = "" THEN settlement ELSE o.outcome

\* a timer that may fire as soon as it is armed
TimerDue_early(o) == now >= o.start
\* setTimeout(..., timeout): the callback runs no earlier than timeout after the call
TimerDue(o) == now >= o.start + OperationTimeoutD

\* withTimeout(this.redisInstance.set(key, value), operationTimeout) is called
WithTimeoutCall(i, k, v) ==
    /\ ops[i].st = "idle"
    /\ ops' = [ops EXCEPT ![i] = [NoOp EXCEPT !.st = "racing", !.start = now, !.key = k,
                                              !.value = v]]
    /\ UNCHANGED <<now, status, sepTags, customWfr, faulty, store, locks, ptags, ttags, queue,
                   drains, cl, rf, ptagOps, stale, refreshAhead, adp, lastCommand, lastSet,
                   lastTagCall, keyspace>>

\* the promise P settles: the store has answered (the record is written) or
\* the command failed; nothing cancels P when the timer has fired
PromiseSettles(i) ==
    /\ ops[i].st = "racing"
    /\ ops[i].p = "pending"
    /\ \E r \in {"ok", TransportError} :
        /\ ops' = [ops EXCEPT ![i] = [@ EXCEPT !.p = r, !.pAt = now, !.outcome = Race(ops[i], r)]]
        /\ IF r = "ok"
           THEN WriteRecord(ops[i].key,
                            NewRecord(ops[i].key, ops[i].value, <<>>, NoOpt, FALSE,
                                      ops[i].start))
           ELSE UNCHANGED <<store, stale, queue, drains>>
    /\ UNCHANGED <<now, status, sepTags, customWfr, faulty, locks, ptags, ttags, cl, rf,
                   ptagOps, refreshAhead, adp, lastCommand, lastSet, lastTagCall, keyspace>>

\* the timer callback runs: rejectTimeout(operationTimeoutError(timeout))
TimerFires(i) ==
    /\ ops[i].st = "racing"
    /\ ops[i].timer = "armed"
    /\ TimerDue(ops[i])
    /\ ops' = [ops EXCEPT ![i] = [@ EXCEPT !.timer = "fired",
                                           !.outcome = Race(ops[i], OperationTimeout)]]
    /\ UNCHANGED <<now, status, sepTags, customWfr, faulty, store, locks, ptags, ttags, queue,
                   drains, cl, rf, ptagOps, stale, refreshAhead, adp, lastCommand, lastSet,
                   lastTagCall, keyspace>>

\* SpecTimeout: withTimeout calls on adapter.set commands of a connected
\* adapter, started one after the other, under a running clock
InitTimeout ==
    /\ InitState
    /\ status = "CONNECTED"
    /\ sepTags = FALSE
    /\ customWfr = FALSE
    /\ faulty = {}

NextTimeout ==
    \/ Tick
    \/ \E i \in OpIds, k \in Keys, v \in ExecValues :
          /\ \A j \in OpIds : j < i => ops[j].st # "idle"
          /\ WithTimeoutCall(i, k, v)
    \/ \E i \in OpIds : PromiseSettles(i)
    \/ \E i \in OpIds : TimerFires(i)

SpecTimeout == InitTimeout /\ [][NextTimeout]_vars

\* C18: withTimeout(P, D) settles with P's outcome when P settles before D has
\* elapsed, and rejects with OperationTimeout when the timer fires while P is
\* pending; it never times out before D has elapsed, it settles once, and a
\* timeout does not stop P: P's effect on the store takes place whenever P
\* resolves, after a timeout too.
C18_WithTimeout ==
    /\ [](\A i \in OpIds :
            /\ (ops[i].p # "pending" /\ ops[i].pAt < ops[i].start + OperationTimeoutD) =>
                   ops[i].outcome = ops[i].p
            /\ ops[i].outcome = OperationTimeout =>
                   (ops[i].timer = "fired" /\ now >= ops[i].start + OperationTimeoutD)
            /\ (ops[i].timer = "fired" /\ ops[i].p = "pending") =>
                   ops[i].outcome = OperationTimeout
            /\ ops[i].outcome \in {"", ops[i].p, OperationTimeout}
            /\ ops[i].p = "ok" => store[ops[i].key] # NoRec)
    /\ [][\A i \in OpIds : ops[i].outcome # "" => ops'[i].outcome = ops[i].outcome]_vars
    /\ [][\A i \in OpIds :
            (ops[i].outcome = OperationTimeout /\ ops[i].p = "pending" /\ ops'[i].p = "ok") =>
                store'[ops[i].key].orig = ops[i].value]_vars

\* a call was rejected with OperationTimeout and P resolved afterwards, its
\* record now in the store
C18_Witness ==
    \E i \in OpIds :
        /\ ops[i].outcome = OperationTimeout /\ ops[i].p = "ok"
        /\ ops[i].pAt >= ops[i].start + OperationTimeoutD
        /\ store[ops[i].key] # NoRec /\ store[ops[i].key].orig = ops[i].value

\* a Refresh-Ahead get whose record passed isRecordValid, so that
\* storage.isOutdated(record) was evaluated; it returned false when the get hit
IsOutdatedCalled(c) ==
    /\ cl[c].pc = "done" /\ cl[c].mgr = "refresh-ahead" /\ cl[c].readAt > 0
    /\ cl[c].rec # NoRec /\ cl[c].rec.value # Undefined
    /\ cl[c].rec.permanent \/ cl[c].readAt <= cl[c].rec.createdAt + cl[c].rec.expiresIn

\* C19: isOutdated(record) returns false when the record has no tags, without
\* reading tag versions; returns true when reading the tag versions fails; and
\* otherwise returns true exactly when some recorded tag has a stored version
\* strictly greater than its recorded version, a tag missing from the store
\* counting as version 0.
C19_IsOutdated ==
    \A c \in Callers : IsOutdatedCalled(c) =>
        LET tags == cl[c].rec.tags
            outdated == cl[c].path # "hit"
        IN /\ Len(tags) = 0 => (~outdated /\ ~cl[c].tagsErr)
           /\ (Len(tags) > 0 /\ cl[c].tagsErr) => outdated
           /\ (Len(tags) > 0 /\ ~cl[c].tagsErr) =>
                  (outdated <=> \E i \in 1..Len(tags) : TagStore[tags[i].name] > tags[i].version)

\* isOutdated returned false for a record whose tag has the stored version
C19_Witness ==
    \E c \in Callers :
        /\ IsOutdatedCalled(c) /\ cl[c].path = "hit" /\ Len(cl[c].rec.tags) > 0
        /\ TagStore[cl[c].rec.tags[1].name] = cl[c].rec.tags[1].version

\* C20: when storage.get raises inside a manager get, the call goes to the
\* executor: its next step settles it with the executor's value or error (an
\* undefined result is returned as it is by Read-Through and Refresh-Ahead and
\* raised as ExecutorReturnsUndefined by Write-Through), after one executor run
\* and without lockKey, set or releaseKey: the store, the locks and the queue
\* are left unchanged, and no refresh is started.
C20_ReadFailureFallback ==
    /\ [][\A c \in Callers :
            (cl[c].pc = "read" /\ cl'[c].pc # "read" /\ cl'[c].readAt = 0) =>
                (cl'[c].pc = "fallback" /\ store' = store /\ locks' = locks /\ queue' = queue)]_vars
    /\ [][\A c \in Callers :
            (cl[c].pc = "fallback" /\ cl'[c] # cl[c]) =>
                /\ cl'[c].pc = "done" /\ cl'[c].path = "fallback" /\ cl'[c].ran = 1
                /\ cl'[c].lockedAt = 0
                /\ store' = store /\ locks' = locks /\ queue' = queue /\ rf' = rf]_vars
    /\ [](\A c \in Callers :
            (cl[c].pc = "done" /\ cl[c].path = "fallback") =>
                /\ cl[c].readAt = 0 /\ cl[c].ran = 1 /\ rf[c] = NoRefresh
                /\ cl[c].res # Undefined => cl[c].res \in ExecValues \cup {ExecError, ExecutorReturnsUndefinedError}
                /\ cl[c].res \in ExecValues => cl[c].res = cl[c].val
                /\ cl[c].res = ExecutorReturnsUndefinedError <=>
                       (cl[c].mgr = "write-through" /\ ResolvedUndefined(cl[c]))
                /\ cl[c].res = Undefined =>
                       (cl[c].mgr # "write-through" /\ cl[c].val = Undefined))

\* a Write-Through get whose storage.get raised although a record is stored
\* returned the executor's value; the record is still there and no lock is held
C20_Witness ==
    \E c \in Callers :
        /\ cl[c].pc = "done" /\ cl[c].path = "fallback" /\ cl[c].mgr = "write-through"
        /\ cl[c].res \in ExecValues /\ store[cl[c].key] # NoRec /\ locks = {}

\* ------------------------------------------------- the adapters' lock calls
\* acquireLock / releaseLock / isLockExists of RedisStorageAdapter, MemcachedStorageAdapter
\* and TestStorageAdapter on the entry `${key}_lock`, whose presence is LockOf(key) \in locks.
\* All three store the empty string as the entry's value.
LockValue == ""

\* JavaScript truthiness of a stored string: if (v), !!v
Truthy(v) == v # ""

\* Redis: SET key_lock "" PX ttl NX, "OK" only when the key was absent.
\* Memcached: add(key_lock, "", lifetime); on a key that is there the client library
\* either reports false or an error, which the adapter rejects with.
\* Test double: this.set(key_lock, ""), an unconditional write that returns true.
AcquireLockResults(kind, k) ==
    CASE kind = "redis" -> {<<LockOf(k) \notin locks, "">>}
      [] kind = "memcached" -> IF LockOf(k) \notin locks
                               THEN {<<TRUE, "">>}
                               ELSE {<<FALSE, "">>, <<FALSE, TransportError>>}
      [] kind = "test" -> {<<TRUE, "">>}

AdapterAcquireLock(k) ==
    /\ adp.n < MaxAdapterCalls
    /\ \E r \in AcquireLockResults(adp.kind, k) :
          LET ok == r[1] IN
          /\ locks' = IF ok THEN locks \cup {LockOf(k)} ELSE locks
          /\ adp' = [adp EXCEPT !.n = @ + 1, !.op = "acquireLock", !.key = k,
                                !.result = ok, !.err = r[2],
                                !.held = IF ok THEN @ \cup {k} ELSE @,
                                !.setAt = IF ok /\ adp.kind # "test" THEN now ELSE @]
    /\ UNCHANGED <<now, status, sepTags, customWfr, faulty, store, ptags, ttags, queue,
                   drains, cl, rf, ptagOps, stale, refreshAhead, ops, lastCommand, lastSet,
                   lastTagCall, keyspace>>

\* Redis: DEL, deletedKeys > 0. Memcached: del. Test double: del() deletes and returns
\* true only if (this.internalStorage[key]) is truthy, and returns false otherwise.
Deletes(kind, k) ==
    /\ LockOf(k) \in locks
    /\ kind = "test" => Truthy(LockValue)

AdapterReleaseLock(k) ==
    /\ adp.n < MaxAdapterCalls
    /\ locks' = IF Deletes(adp.kind, k) THEN locks \ {LockOf(k)} ELSE locks
    /\ adp' = [adp EXCEPT !.n = @ + 1, !.op = "releaseLock", !.key = k,
                          !.result = Deletes(adp.kind, k), !.err = "", !.held = @ \ {k}]
    /\ UNCHANGED <<now, status, sepTags, customWfr, faulty, store, ptags, ttags, queue,
                   drains, cl, rf, ptagOps, stale, refreshAhead, ops, lastCommand, lastSet,
                   lastTagCall, keyspace>>

\* Redis: EXISTS === 1. Memcached: get, result !== null && result !== undefined.
\* Test double: !!this.internalStorage[key_lock].
IsLockExistsResult(kind, k) ==
    /\ LockOf(k) \in locks
    /\ kind = "test" => Truthy(LockValue)

AdapterIsLockExists(k) ==
    /\ adp.n < MaxAdapterCalls
    /\ adp' = [adp EXCEPT !.n = @ + 1, !.op = "isLockExists", !.key = k,
                          !.result = IsLockExistsResult(adp.kind, k), !.err = ""]
    /\ UNCHANGED <<now, status, sepTags, customWfr, faulty, store, locks, ptags, ttags, queue,
                   drains, cl, rf, ptagOps, stale, refreshAhead, ops, lastCommand, lastSet,
                   lastTagCall, keyspace>>

\* The entry of Redis (PX) and Memcached (lifetime) goes once its time is over; the test
\* double keeps no time.
AdapterLockExpires(k) ==
    /\ adp.kind # "test"
    /\ LockOf(k) \in locks
    /\ now >= adp.setAt + LockExpireTimeout
    /\ locks' = locks \ {LockOf(k)}
    /\ UNCHANGED <<now, status, sepTags, customWfr, faulty, store, ptags, ttags, queue,
                   drains, cl, rf, ptagOps, stale, refreshAhead, ops, adp, lastCommand,
                   lastSet, lastTagCall, keyspace>>

InitAdapterLock ==
    /\ InitStore
    /\ lastCommand = NoCommand
    /\ lastSet = NoSetCall
    /\ lastTagCall = NoTagCall
    /\ keyspace = NoKeyspace
    /\ refreshAhead = DefaultRefreshAhead
    /\ status = "CONNECTED"
    /\ sepTags = FALSE
    /\ customWfr = FALSE
    /\ faulty = {}
    /\ \E kind \in AdapterKinds : adp = [NoAdapterCall EXCEPT !.kind = kind]

NextAdapterLock ==
    \/ Tick
    \/ \E k \in Keys : AdapterAcquireLock(k)
    \/ \E k \in Keys : AdapterReleaseLock(k)
    \/ \E k \in Keys : AdapterIsLockExists(k)
    \/ \E k \in Keys : AdapterLockExpires(k)

SpecAdapterLock == InitAdapterLock /\ [][NextAdapterLock]_vars

\* C21: on every adapter the lock is an atomic set-if-absent: acquireLock(k) returns true
\* only if no lock for k was there; after it returned true isLockExists(k) is true and a
\* further acquireLock(k) does not return true until releaseLock(k), which then returns
\* true and leaves isLockExists(k) false.
AdapterCalled(name) == adp'.n = adp.n + 1 /\ adp'.op = name

C21_AtomicLock ==
    /\ [][\A k \in Keys :
            /\ AdapterCalled("acquireLock") /\ adp'.key = k /\ adp'.result = TRUE
                 => LockOf(k) \notin locks /\ k \notin adp.held
            /\ AdapterCalled("releaseLock") /\ adp'.key = k /\ k \in adp.held
                 => adp'.result = TRUE /\ ~IsLockExistsResult(adp.kind, k)'
            /\ AdapterCalled("isLockExists") /\ adp'.key = k /\ k \in adp.held
                 => adp'.result = TRUE]_vars
    /\ [](\A k \in adp.held : IsLockExistsResult(adp.kind, k))

\* The same on the two adapters that talk to a server, while the entry's time runs.
C21_ServerAdaptersAtomic ==
    [][adp.kind # "test" =>
        \A k \in Keys :
            AdapterCalled("acquireLock") /\ adp'.key = k /\ adp'.result = TRUE
                => LockOf(k) \notin locks]_vars

C23_LockKeyRaises ==
    /\ [](\A c \in Callers :
            cl[c].pc = "done" /\ cl[c].path = "lockerr" =>
                /\ cl[c].logged /\ cl[c].ran = 1
                /\ cl[c].res \in ExecOutcomes
                /\ cl[c].sets = 0 /\ cl[c].rel = 0)
    /\ [][\A c \in Callers :
            cl[c].pc = "lockerr" /\ cl'[c] # cl[c] =>
                /\ cl'[c].pc = "done" /\ cl'[c].path = "lockerr"
                /\ store' = store /\ locks' = locks /\ queue' = queue]_vars

C23_Witness ==
    \E c \in Callers :
        /\ cl[c].pc = "done" /\ cl[c].path = "lockerr" /\ cl[c].ran = 1
        /\ cl[c].res \in ExecOutcomes \ {ExecError}

\* C24: when lockKey returns false, updateCacheAndGetResult returns what the strategy
\* named in the options returns, runExecutor when none is named; with runExecutor the
\* caller's executor runs exactly once and the call performs no set, no releaseKey and no
\* read of the store, so the record and the other caller's lock are left as they were.
ByRunExecutor(r) ==
    r.path = "strategy" /\ getLockedKeyRetrieveStrategy(r.strat) = "runExecutor"

C24_LockKeyFalse ==
    /\ [](\A c \in Callers :
            cl[c].pc = "done" /\ ByRunExecutor(cl[c]) =>
                /\ cl[c].ran = 1 /\ cl[c].res \in ExecOutcomes
                /\ cl[c].sets = 0 /\ cl[c].rel = 0 /\ cl[c].polls = 0)
    /\ [][\A c \in Callers :
            /\ cl[c].pc = "lock" /\ cl'[c].path = "strategy" =>
                 /\ LockOf(cl[c].key) \in locks /\ locks' = locks
                 /\ cl'[c].pc = (IF cl[c].strat = "waitForResult" THEN "wchk" ELSE "strat")
            /\ cl[c].pc = "strat" /\ cl'[c] # cl[c] =>
                 /\ cl'[c].pc = "done" /\ cl'[c].rec = cl[c].rec
                 /\ store' = store /\ locks' = locks /\ queue' = queue]_vars

\* no strategy was named, the executor ran outside the lock, and the lock of the other
\* caller is still there
C24_Witness ==
    \E c, d \in Callers :
        /\ cl[c].pc = "done" /\ cl[c].path = "strategy" /\ cl[c].strat = Undefined
        /\ cl[c].ran = 1 /\ cl[c].res # ExecError
        /\ cl[d].pc \in {"exec", "set", "release"} /\ cl[d].key = cl[c].key
        /\ LockOf(cl[c].key) \in locks

\* SpecCommand: touches whose cachedCommand calls are followed, on an adapter whose mset
\* may fail and that disconnects, and connects again while nothing is queued
InitCommand ==
    /\ InitStore
    /\ refreshAhead = DefaultRefreshAhead
    /\ adp = NoAdapterCall
    /\ lastCommand = NoCommand
    /\ lastSet = NoSetCall
    /\ lastTagCall = NoTagCall
    /\ keyspace = NoKeyspace
    /\ status \in Statuses
    /\ sepTags \in BOOLEAN
    /\ customWfr = FALSE
    /\ faulty = {"mset"}

NextCommand ==
    \/ Tick
    \/ \E st \in {"CONNECTING", "DISCONNECTED"} : ConnectionLost(st)
    \/ Len(queue) = 0 /\ Connect
    \/ \E tg \in TagLists \ {<<>>} : TouchCommand(tg)

SpecCommand == InitCommand /\ [][NextCommand]_vars

\* C25: cachedCommand(fn, args) on an adapter that is not CONNECTED appends (fn, args) to
\* the queue, does not invoke fn and succeeds; on a CONNECTED adapter it invokes fn once,
\* and then an OperationTimeout appends (fn, args) and the call succeeds, any other
\* failure is raised with the queue unchanged, and a success leaves the queue unchanged.
Queued(q, names) == Append(q, Command(names))

C25_CachedCommand ==
    [][lastCommand'.flip # lastCommand.flip =>
         LET r == lastCommand'.last IN
         IF status # "CONNECTED"
         THEN r.invoked = 0 /\ r.call = "ok" /\ queue' = Queued(queue, lastCommand'.names)
         ELSE /\ r.invoked = 1
              /\ r.fn = "ok" => r.call = "ok" /\ queue' = queue
              /\ r.fn = "timeout" => r.call = "ok" /\ queue' = Queued(queue, lastCommand'.names)
              /\ r.fn = "error" => r.call = TransportError /\ queue' = queue]_vars

\* fn was invoked and timed out: the command is the last of the queue, the call succeeded
C25_Witness ==
    /\ lastCommand.last.invoked = 1 /\ lastCommand.last.fn = "timeout"
    /\ lastCommand.last.call = "ok"
    /\ Len(queue) > 0 /\ queue[Len(queue)].params = Command(lastCommand.names).params
    /\ status = "CONNECTED"

\* C26: the offline queue keeps commands in the order they were enqueued; after a drain
\* the queue holds exactly the commands that failed, in the order in which their
\* invocations failed, which need not be the order they had in the queue.
EndsDrain(d) == drains[d].active /\ ~drains'[d].active

C26_QueueOrder ==
    /\ [][(queue' # queue /\ \A d \in DrainIds : ~EndsDrain(d)) =>
             /\ Len(queue') = Len(queue) + 1
             /\ SubSeq(queue', 1, Len(queue)) = queue]_vars
    /\ [][\A d \in DrainIds :
             /\ Len(drains'[d].failedIdx) > Len(drains[d].failedIdx) =>
                    /\ Len(drains'[d].failedIdx) = Len(drains[d].failedIdx) + 1
                    /\ SubSeq(drains'[d].failedIdx, 1, Len(drains[d].failedIdx))
                           = drains[d].failedIdx
                    /\ drains'[d].failedIdx[Len(drains'[d].failedIdx)] \in drains[d].pending
             /\ EndsDrain(d) =>
                    /\ Len(queue') = Len(drains[d].failedIdx)
                    /\ \A j \in 1..Len(queue') :
                           queue'[j] = drains[d].snap[drains[d].failedIdx[j]]]_vars

\* a drain is over and the queue it left is not in the order of enqueueing: the command
\* made by the later touch comes first
C26_Witness ==
    /\ \A d \in DrainIds : ~drains[d].active
    /\ Len(queue) = 2
    /\ queue[1].params[1].version > queue[2].params[1].version

\* ------------------------------------------------ the lease of the refresh lock
\* the time the entry "refreshAhead:<k>_lock" was set: the latest successful lockKey
RefreshLockSetAt(k) ==
    LET times == {rf[c].lockedAt : c \in {d \in Callers : cl[d].key = k}}
    IN CHOOSE t \in times : \A u \in times : u <= t

\* the store drops the entry once its TTL (PX lockExpireTimeout) has elapsed
RefreshLockExpire(k) ==
    /\ RefreshLockOf(k) \in locks
    /\ RefreshLockSetAt(k) > 0
    /\ now >= RefreshLockSetAt(k) + LockExpireTimeout
    /\ locks' = locks \ {RefreshLockOf(k)}
    /\ UNCHANGED <<now, status, cfg, store, ptags, ttags, queue, drains, cl, rf, ptagOps,
                   stale>>

\* SpecRefresh: Refresh-Ahead gets of a record that was written long before the first
\* clock reading, expires after the last one and is expiring soon at every one, on a
\* connected adapter whose set may fail; time passes while a refresh holds the lock, and
\* lock entries expire
LongExpiresIn == 5 * MaxTime
LongAgo == 0 - 4 * MaxTime

InitRefresh ==
    /\ ops = [i \in OpIds |-> NoOp]
    /\ now = 1
    /\ store = [k \in Keys |-> NewRecord(k, "a", <<>>, LongExpiresIn, FALSE, LongAgo)]
    /\ locks = {}
    /\ ptags = [t \in TagNames |-> 0]
    /\ ttags = [t \in TagNames |-> 0]
    /\ queue = <<>>
    /\ drains = [d \in DrainIds |-> NoDrain]
    /\ cl = [c \in Callers |-> IdleCaller]
    /\ rf = [c \in Callers |-> NoRefresh]
    /\ ptagOps = {}
    /\ stale = [k \in Keys |-> FALSE]
    /\ refreshAhead = DefaultRefreshAhead
    /\ adp = NoAdapterCall
    /\ lastCommand = NoCommand
    /\ lastSet = NoSetCall
    /\ lastTagCall = NoTagCall
    /\ keyspace = NoKeyspace
    /\ status = "CONNECTED"
    /\ sepTags = FALSE
    /\ customWfr = FALSE
    /\ faulty = {"set"}

NextRefresh ==
    \/ (\E c \in Callers : rf[c].pc \in {"rexec", "rset", "rrel"}) /\ Tick
    \/ \E c \in Callers, k \in Keys :
          /\ \A d \in Callers : d < c => cl[d].pc # "idle"
          /\ CacheGet(c, k, "refresh-ahead", "runExecutor", <<>>, LongExpiresIn)
    \/ \E c \in Callers : StorageGet(c)
    \/ \E c \in Callers : RefreshSteps(c)
    \/ \E k \in Keys : RefreshLockExpire(k)

SpecRefresh == InitRefresh /\ [][NextRefresh]_vars

\* the refresh of caller c holds "refreshAhead:<key>" and its executor has not settled
RefreshExecutorRuns(c) == rf[c].pc = "rexec"

\* refresh(k) runs no executor and writes nothing when the lock was not acquired; when
\* it was, it runs the executor, writes the result with storage.set and calls releaseKey
\* on every exit path
C27_RefreshPaths ==
    /\ [](\A c \in Callers : rf[c].pc = "none" => rf[c].ran <= 1)
    /\ [][\A c \in Callers :
            /\ rf[c].pc = "rlock" /\ rf'[c].pc = "none" =>
                 rf'[c].ran = 0 /\ store' = store /\ locks' = locks
            /\ rf[c].pc = "rlock" /\ rf'[c].pc # "rlock" /\ rf'[c].pc # "none" =>
                 /\ rf'[c].pc = "rexec" /\ RefreshLockOf(cl[c].key) \notin locks
                 /\ RefreshLockOf(cl[c].key) \in locks'
            /\ rf[c].pc = "rexec" /\ rf'[c].pc # "rexec" =>
                 rf'[c].ran = 1 /\ rf'[c].pc \in {"rset", "rrel"} /\ store' = store
            /\ rf[c].pc = "rset" /\ rf'[c].pc # "rset" => rf'[c].pc = "rrel"
            /\ rf[c].pc = "rrel" /\ rf'[c].pc # "rrel" =>
                 rf'[c].pc = "none" /\ RefreshLockOf(cl[c].key) \notin locks'
            /\ rf[c].pc # "rset" /\ rf'[c] # rf[c] => store' = store]_vars

\* C27: refresh(k) first tries to acquire "refreshAhead:k"; not acquired, it runs no
\* executor and writes nothing; acquired, it runs the executor, writes the result and
\* releases the lock on every exit path. Hence at most one refresh executor runs per key
\* at a time under concurrent expiring-soon hits.
C27_Refresh ==
    /\ C27_RefreshPaths
    /\ [](\A c, d \in Callers :
            (c # d /\ cl[c].key = cl[d].key /\ RefreshExecutorRuns(c))
                => ~RefreshExecutorRuns(d))

\* SpecObserve: Read-Through gets of one key with a registered waitForResult strategy on
\* a connected adapter whose calls succeed; time passes while a call waits, and lock
\* entries expire
InitObserve ==
    /\ InitState
    /\ status = "CONNECTED"
    /\ sepTags = FALSE
    /\ customWfr = TRUE
    /\ faulty = {}

NextObserve ==
    \/ (\E c \in Callers : cl[c].pc \in {"wchk", "wsleep"}) /\ Tick
    \/ \E c \in Callers, k \in Keys :
          /\ \A d \in Callers : d < c => cl[d].pc # "idle"
          /\ CacheGet(c, k, "read-through", "waitForResult", <<>>, NoOpt)
    \/ \E c \in Callers : StorageGet(c)
    \/ \E c \in Callers : LockKey(c)
    \/ \E c \in Callers : LockedExecutor(c)
    \/ \E c \in Callers : ManagerSet(c)
    \/ \E c \in Callers : ReleaseKey(c)
    \/ \E c \in Callers : WaitCheck(c)
    \/ \E c \in Callers : WaitSleep(c)
    \/ \E c \in Callers : WaitGetRecord(c)
    \/ \E k \in Keys : LockExpire(k)

SpecObserve == InitObserve /\ [][NextObserve]_vars

\* the call took the lock, and its executor and its set succeeded
HolderSucceeded(h) ==
    cl[h].pc = "done" /\ cl[h].path = "locked" /\ cl[h].err = "" /\ cl[h].sets = 1

\* the call found the key locked, waited, saw the lock absent and read the record
Observed(c) == cl[c].pc = "done" /\ cl[c].path = "strategy" /\ cl[c].seen = "unlocked"

\* in the locked section the write has completed when releaseKey is issued
C28_SetThenRelease ==
    [][\A h \in Callers :
         cl[h].pc = "release" /\ cl'[h].pc = "done" /\ cl[h].err = "" =>
             cl[h].sets = 1 /\ store[cl[h].key] # NoRec]_vars

\* C28: in the single-flight section the record write completes before releaseKey is
\* issued: an observer that sees the lock for k absent after the holder acquired it sees
\* the record written by that holder whenever the holder's executor and set succeeded.
C28_WriteBeforeRelease ==
    /\ C28_SetThenRelease
    /\ [](\A c, h \in Callers :
            (/\ c # h /\ cl[c].key = cl[h].key
             /\ Observed(c) /\ HolderSucceeded(h)
             /\ \A g \in Callers \ {h} : cl[g].path # "locked")
                => cl[c].rec # NoRec /\ cl[c].rec.orig = cl[h].val)

\* ------------------------------------------------------------ BaseStorage.set
\* uniq(arr) = [...new Set(arr)]: the first occurrence of every element, in order
RECURSIVE uniq(_)
uniq(s) ==
    IF s = <<>> THEN <<>>
    ELSE LET front == uniq(SubSeq(s, 1, Len(s) - 1))
             last == s[Len(s)]
         IN IF \E i \in 1..Len(front) : front[i] = last THEN front ELSE Append(front, last)

\* tags = options.tags if it is an array, options.tags() if it is given otherwise
StaticTags(tagsOpt) == tagsOpt.names

\* options.getTags?.(value) ?? []
DynamicTags(getTagsOpt) ==
    CASE getTagsOpt.kind = "array" -> getTagsOpt.names
      [] getTagsOpt.kind = "nonarray" -> "false"
      [] OTHER -> <<>>

\* Array.isArray(dynamicTags)
IsArray(x) == x # "false"

\* BaseStorage.set(key, value, options): the TypeError for a getTags result that is not
\* an array, else new Record(...) and adapter.set
StorageSet(k, v, tagsOpt, getTagsOpt, expOpt, permOpt) ==
    LET dynamicTags == DynamicTags(getTagsOpt)
        call == [lastSet EXCEPT !.value = v, !.tags = tagsOpt, !.getTags = getTagsOpt,
                                !.expOpt = expOpt, !.at = now]
    IN
    /\ IF ~IsArray(dynamicTags)
       THEN /\ lastSet' = [call EXCEPT !.record = NoRec, !.adapterSets = 0,
                                       !.result = TypeErr]
            /\ UNCHANGED <<store, stale, queue, drains>>
       ELSE LET record == NewRecord(k, v, uniq(StaticTags(tagsOpt) \o dynamicTags), expOpt,
                                    permOpt, now)
            IN \E o \in Outcomes("primary", "set") :
                 /\ lastSet' = [call EXCEPT !.record = record, !.adapterSets = 1,
                                            !.result = IF o = "ok" THEN "ok" ELSE ErrorOf(o)]
                 /\ IF o = "ok" THEN WriteRecord(k, record)
                    ELSE UNCHANGED <<store, stale, queue, drains>>
    /\ UNCHANGED <<now, status, sepTags, customWfr, faulty, refreshAhead, ops, adp,
                   lastCommand, locks, ptags, ttags, cl, rf, ptagOps, lastTagCall, keyspace>>

\* SpecSet: BaseStorage.set calls with every combination of tags, getTags and
\* expiresIn, on a connected adapter whose calls succeed, while time passes
InitSet ==
    /\ InitState
    /\ status = "CONNECTED"
    /\ sepTags = FALSE
    /\ customWfr = FALSE
    /\ faulty = {}

NextSet ==
    \/ Tick
    \/ \E k \in Keys, v \in {"a", Undefined}, tg \in TagsOpts, gt \in GetTagsOpts,
          e \in ExpiresInOpts, perm \in BOOLEAN :
          StorageSet(k, v, tg, gt, e, perm)

SpecSet == InitSet /\ [][NextSet]_vars

\* C29: every record built by BaseStorage.set has permanent = (expiresIn = 0), with
\* expiresIn = 0 when the options give none, and an empty tag list whenever its value is
\* undefined, whatever tags and getTags were supplied.
C29_RecordShape ==
    /\ lastSet.record # NoRec =>
          /\ lastSet.record.permanent = (lastSet.record.expiresIn = 0)
          /\ lastSet.expOpt = NoOpt => lastSet.record.expiresIn = 0
          /\ lastSet.expOpt # NoOpt => lastSet.record.expiresIn = lastSet.expOpt
          /\ lastSet.value = Undefined => lastSet.record.tags = <<>>
    /\ \A k \in Keys :
          store[k] # NoRec =>
              /\ store[k].permanent = (store[k].expiresIn = 0)
              /\ store[k].orig = Undefined => store[k].tags = <<>>

\* an undefined value was set with tags and getTags both naming tags and no expiresIn
C29_Witness ==
    /\ lastSet.record # NoRec /\ lastSet.value = Undefined /\ lastSet.expOpt = NoOpt
    /\ lastSet.tags.names # <<>> /\ lastSet.getTags.names # <<>>
    /\ lastSet.record.tags = <<>> /\ lastSet.record.permanent
    /\ \E k \in Keys : store[k] = lastSet.record

\* the names a BaseStorage.set call was given: options.tags, then what getTags returned
GivenTags(call) == StaticTags(call.tags) \o call.getTags.names

FirstAt(s, x) == CHOOSE i \in 1..Len(s) : s[i] = x /\ \A j \in 1..(i - 1) : s[j] # x

\* rec holds every given name once, in the order of the names' first occurrences
UnionInOrder(rec, given) ==
    LET names == TagNamesOf(rec) IN
    /\ {names[i] : i \in 1..Len(names)} = {given[i] : i \in 1..Len(given)}
    /\ \A i, j \in 1..Len(names) :
          i < j => names[i] # names[j] /\ FirstAt(given, names[i]) < FirstAt(given, names[j])

\* what holds of the tags: for a value that is not undefined the record has the static
\* tags followed by getTags(value), duplicates removed and first-occurrence order kept,
\* each with the time of the call as its version; a TypeError comes with no record
\* and no adapter call, and leaves the store as it was
C30_TagUnion ==
    /\ [](/\ lastSet.result = TypeErr => lastSet.adapterSets = 0 /\ lastSet.record = NoRec
          /\ (lastSet.record # NoRec /\ lastSet.value # Undefined) =>
                /\ UnionInOrder(lastSet.record, GivenTags(lastSet))
                /\ \A i \in 1..Len(lastSet.record.tags) :
                      lastSet.record.tags[i].version = lastSet.at)
    /\ [][(lastSet' # lastSet /\ lastSet'.result = TypeErr) => store' = store]_vars

\* C30: BaseStorage.set records as tags the static tags (a list, or what the thunk
\* returns) followed by getTags(value), duplicates removed and first-occurrence order
\* kept (for a value that is not undefined, C29); if getTags returns a non-array the call
\* fails with a TypeError and nothing is written to the adapter.
C30_Tags ==
    /\ C30_TagUnion
    /\ [](lastSet.getTags.kind \in {"nonarray", "nullish"} =>
              lastSet.result = TypeErr /\ lastSet.adapterSets = 0)

\* ------------------------------------------- BaseStorage.getTags and touch
\* the tag lists given to getTags: "t2" is a tag that was never touched
GetTagsNames == {<<>>, <<"t1">>, <<"t2", "t1">>, <<"t1", "t2">>, <<"t1", "t1">>}

\* tagsAdapter.mget(keys): <<>> stands for the null of a key that is not stored
AdapterMget(tagStore, names) ==
    [i \in 1..Len(names) |->
        IF names[i] \in DOMAIN tagStore /\ tagStore[names[i]] # 0
        THEN <<tagStore[names[i]]>>
        ELSE <<>>]

\* Number(existingTags[index]) || 0
NumberOrZero(x) == IF x = <<>> THEN 0 ELSE x[1]

\* getTags: tagNames.map((tagName, index) => ({ name, version }))
TagsOf(names, existingTags) ==
    [i \in 1..Len(names) |-> [name |-> names[i], version |-> NumberOrZero(existingTags[i])]]

\* BaseStorage.getTags(tagNames)
StorageGetTags(names) ==
    /\ LET call == [lastTagCall EXCEPT !.flip = 1 - @, !.op = "getTags", !.names = names,
                                       !.queued = 0]
       IN IF Len(names) = 0
          THEN /\ lastTagCall' = [call EXCEPT !.result = <<>>, !.err = "", !.calls = 0]
               /\ UNCHANGED ptagOps
          ELSE /\ ptagOps' = Logged(TagsAdapterName, "mget")
               /\ \E o \in Outcomes(TagsAdapterName, "mget") :
                    lastTagCall' =
                       IF o = "ok"
                       THEN [call EXCEPT !.result = TagsOf(names, AdapterMget(TagStore, names)),
                                         !.err = "", !.calls = 1]
                       ELSE [call EXCEPT !.result = <<>>, !.err = ErrorOf(o), !.calls = 1]
    /\ UNCHANGED <<now, status, sepTags, customWfr, faulty, refreshAhead, ops, adp,
                   lastCommand, lastSet, store, locks, ptags, ttags, queue, drains, cl, rf,
                   stale, keyspace>>

\* a touch that hands every tag list to cachedCommand
TouchGuard_always(names) == TRUE
\* touch: if (tags.length > 0)
TouchGuard(names) == Len(names) > 0

\* BaseStorage.touch(tags), the call followed in lastTagCall
StorageTouch(names) ==
    /\ LET call == [lastTagCall EXCEPT !.flip = 1 - @, !.op = "touch", !.names = names,
                                       !.result = <<>>]
       IN IF TouchGuard(names)
          THEN \E r \in CommandResults :
                  /\ cachedCommand(names, r)
                  /\ lastTagCall' = [call EXCEPT !.err = IF r.call = "ok" THEN "" ELSE r.call,
                                                 !.calls = r.invoked,
                                                 !.queued = Len(queue') - Len(queue)]
          ELSE /\ lastTagCall' = [call EXCEPT !.err = "", !.calls = 0, !.queued = 0,
                                                 !.emptyTouch = TRUE]
               /\ UNCHANGED <<queue, ptags, ttags, stale, ptagOps>>
    /\ UNCHANGED <<now, status, sepTags, customWfr, faulty, refreshAhead, ops, adp,
                   lastCommand, lastSet, store, locks, drains, cl, rf, keyspace>>

InitTagCalls ==
    /\ InitState
    /\ status \in Statuses
    /\ sepTags \in BOOLEAN
    /\ customWfr = FALSE
    /\ faulty = {"mget", "mset"}

NextTagCalls ==
    \/ Tick
    \/ \E st \in {"CONNECTING", "DISCONNECTED"} : ConnectionLost(st)
    \/ Len(queue) = 0 /\ Connect
    \/ \E tg \in TagLists : StorageTouch(tg)
    \/ \E tg \in GetTagsNames : StorageGetTags(tg)

SpecTagCalls == InitTagCalls /\ [][NextTagCalls]_vars

TagCallMade(name) == lastTagCall' # lastTagCall /\ lastTagCall'.op = name

\* the version stored for a tag name when the call is made, 0 for a tag that is absent
StoredVersion(name) == IF name \in DOMAIN TagStore THEN TagStore[name] ELSE 0

\* C31: a getTags that returns gives one (name, version) pair per input name, in input
\* order, the version being the stored one and 0 for a tag absent from the store;
\* getTags([]) returns [] without an adapter call; touch([]) issues no adapter call,
\* appends nothing to the queue and leaves every stored tag version unchanged.
C31_GetTagsTouch ==
    /\ [][(TagCallMade("getTags") /\ lastTagCall'.err = "") =>
            LET names == lastTagCall'.names
                tags == lastTagCall'.result
            IN /\ Len(tags) = Len(names)
               /\ \A i \in 1..Len(names) :
                     /\ tags[i].name = names[i]
                     /\ tags[i].version = StoredVersion(names[i])
               /\ names = <<>> => lastTagCall'.calls = 0 /\ ptagOps' = ptagOps]_vars
    /\ [][(TagCallMade("getTags") /\ lastTagCall'.names = <<>>) => lastTagCall'.err = ""]_vars
    /\ [][(TagCallMade("touch") /\ lastTagCall'.names = <<>>) =>
            /\ lastTagCall'.calls = 0 /\ lastTagCall'.queued = 0 /\ lastTagCall'.err = ""
            /\ ptagOps' = ptagOps
            /\ queue' = queue
            /\ ptags' = ptags /\ ttags' = ttags]_vars

\* getTags answered for a touched tag and a tag that is absent, after a touch([])
\* was made, while a command is waiting in the queue
C31_Witness ==
    /\ lastTagCall.emptyTouch /\ queue # <<>>
    /\ lastTagCall.op = "getTags" /\ lastTagCall.err = ""
    /\ lastTagCall.names = <<"t2", "t1">>
    /\ lastTagCall.result[1].version = 0 /\ lastTagCall.result[2].version > 0

\* ------------------------------------------------- a holder that crashed
\* The lock calls of one adapter when no holder ever calls releaseLock: callers take the
\* lock and look at it, the clock runs, and the store drops an entry whose time is over.
NextCrash ==
    \/ Tick
    \/ \E k \in Keys : AdapterAcquireLock(k)
    \/ \E k \in Keys : AdapterIsLockExists(k)
    \/ \E k \in Keys : AdapterLockExpires(k)

\* time passes, and the store removes an entry once its time is over
SpecCrash ==
    /\ InitAdapterLock
    /\ [][NextCrash]_vars
    /\ WF_vars(Tick)
    /\ \A k \in Keys : WF_vars(AdapterLockExpires(k))

\* the entry of k is there and the clock of the model reaches the end of its time
LockedWithinClock(k) == LockOf(k) \in locks /\ adp.setAt + LockExpireTimeout <= MaxTime

\* a lockKey(k) made now returns true
LockKeyReturnsTrue(k) == \A r \in AcquireLockResults(adp.kind, k) : r[1]

\* C32: a lock that is never released disappears once its time is over, and a lockKey
\* for the same key then returns true: on every adapter.
C32_LockTtl ==
    \A k \in Keys :
        LockedWithinClock(k) ~> (LockOf(k) \notin locks /\ LockKeyReturnsTrue(k))

\* The same on the two adapters that give the entry a time to live.
C32_ServerAdaptersTtl ==
    \A k \in Keys :
        (adp.kind # "test" /\ LockedWithinClock(k))
            ~> (LockOf(k) \notin locks /\ LockKeyReturnsTrue(k))

\* how often the command x is in the sequence q
Count(q, x) == Cardinality({i \in 1..Len(q) : q[i] = x})

\* the commands appended to the queue since the run d read it
AppendedSince(d) == SubSeq(queue, Len(drains[d].snap) + 1, Len(queue))

\* C33: a command appended to the offline queue while an executeCommandsFromQueue run is
\* in progress is still in the queue when that run finishes.
C33_NoCommandLost ==
    [][\A d \in DrainIds :
          EndsDrain(d) =>
              LET appended == AppendedSince(d)
              IN \A i \in 1..Len(appended) :
                    Count(queue', appended[i]) >= Count(appended, appended[i])]_vars

\* ------------------------------------------- the queue once the adapter is well
\* the operations of the adapter stop failing
Recover ==
    /\ faulty # {}
    /\ faulty' = {}
    /\ UNCHANGED <<now, status, sepTags, customWfr, refreshAhead, ops, adp, lastCommand,
                   lastSet, lastTagCall, keyspace, store, locks, ptags, ttags, queue, drains,
                   cl, rf, ptagOps, stale>>

InitApplied ==
    /\ InitState
    /\ status \in {"CONNECTED", "DISCONNECTED"}
    /\ sepTags = FALSE
    /\ customWfr = FALSE
    /\ faulty = {"mset"}

NextApplied ==
    \/ Tick
    \/ ConnectionLost("DISCONNECTED")
    \/ (\A d \in DrainIds : ~drains[d].active) /\ Connect
    \/ \E tg \in TagLists \ {<<>>} : Touch(tg)
    \/ \E d \in DrainIds : \E i \in 1..MaxQueue : DrainCommand(d, i)
    \/ \E d \in DrainIds : DrainEnd(d)
    \/ Recover

\* every invocation of a run settles and the run then finishes
SpecApplied ==
    /\ InitApplied
    /\ [][NextApplied]_vars
    /\ \A d \in DrainIds : WF_vars(\E i \in 1..MaxQueue : DrainCommand(d, i))
    /\ \A d \in DrainIds : WF_vars(DrainEnd(d))

\* a command that writes version v of tag t is waiting in the queue
InQueue(t, v) ==
    \E i \in 1..Len(queue) : \E j \in 1..Len(queue[i].params) :
        queue[i].params[j] = createTag(t, v)

\* the adapter is connected and its operations succeed
AdapterWell == status = "CONNECTED" /\ faulty = {}

\* C34: if from some point on the adapter is connected and its operations succeed,
\* then the tag-version write of every queued touch is eventually executed: the store
\* comes to hold the version of that touch, or a later one.
C34_EventuallyApplied ==
    (<>[]AdapterWell) =>
        \A t \in TagNames : \A v \in 1..MaxTime :
            [](InQueue(t, v) => <>(TagStore[t] >= v))

\* BaseStorage.isOutdated(record) for the record stored under k, the tag versions
\* being readable
TagOutdated(k) ==
    /\ store[k] # NoRec
    /\ isTagsOutdated(store[k].tags, getTags(TagStore, TagNamesOf(store[k])))

\* C35: a stored record that is tag-outdated stays tag-outdated for as long as it is
\* not overwritten or deleted, whatever touches, timeouts and drains happen.
C35_OutdatedStable ==
    [][\A k \in Keys : (TagOutdated(k) /\ store'[k] = store[k]) => TagOutdated(k)']_vars

\* ------------------------------------------- waiting on a key that holds an old record
\* SpecStale: Read-Through gets under a registered waitForResult strategy of a key whose
\* record expired long before the first clock reading; the adapter is connected, its
\* calls succeed and no lock entry expires
InitStale ==
    /\ ops = [i \in OpIds |-> NoOp]
    /\ now = 1
    /\ store = [k \in Keys |-> NewRecord(k, "a", <<>>, 1, FALSE, LongAgo)]
    /\ locks = {}
    /\ ptags = [t \in TagNames |-> 0]
    /\ ttags = [t \in TagNames |-> 0]
    /\ queue = <<>>
    /\ drains = [d \in DrainIds |-> NoDrain]
    /\ cl = [c \in Callers |-> IdleCaller]
    /\ rf = [c \in Callers |-> NoRefresh]
    /\ ptagOps = {}
    /\ stale = [k \in Keys |-> FALSE]
    /\ refreshAhead = DefaultRefreshAhead
    /\ adp = NoAdapterCall
    /\ lastCommand = NoCommand
    /\ lastSet = NoSetCall
    /\ lastTagCall = NoTagCall
    /\ keyspace = NoKeyspace
    /\ status = "CONNECTED"
    /\ sepTags = FALSE
    /\ customWfr = TRUE
    /\ faulty = {}

NextStale ==
    \/ (\E c \in Callers : cl[c].pc \in {"wchk", "wsleep"}) /\ Tick
    \/ \E c \in Callers, k \in Keys :
          /\ \A d \in Callers : d < c => cl[d].pc # "idle"
          /\ CacheGet(c, k, "read-through", "waitForResult", <<>>, NoOpt)
    \/ \E c \in Callers : StorageGet(c)
    \/ \E c \in Callers : LockKey(c)
    \/ \E c \in Callers : LockedExecutor(c)
    \/ \E c \in Callers : ManagerSet(c)
    \/ \E c \in Callers : ReleaseKey(c)
    \/ \E c \in Callers : WaitCheck(c)
    \/ \E c \in Callers : WaitSleep(c)
    \/ \E c \in Callers : WaitGetRecord(c)

SpecStale == InitStale /\ [][NextStale]_vars

\* the waitForResult strategy of call c reads the record and returns its value
WaitReturnsValue(c) == cl[c].pc = "wget" /\ cl'[c].pc = "done" /\ cl'[c].rec # NoRec

\* the record was written in the locked section of another call, not before the first
\* clock reading
WrittenByHolder(rec, c) ==
    \E h \in Callers \ {c} :
        /\ cl[h].path = "locked" /\ cl[h].sets = 1 /\ cl[h].err = ""
        /\ rec.orig = cl[h].val /\ rec.createdAt >= 1

\* C36: the record whose value a waitForResult get returns is, when it is read, neither
\* time-expired nor tag-outdated, and was written by the holder of the lock.
C36_WaitForResultFresh ==
    [][\A c \in Callers :
          WaitReturnsValue(c) =>
              /\ ~IsExpired(cl'[c].rec, now)
              /\ ~isTagsOutdated(cl'[c].rec.tags, getTags(TagStore, TagNamesOf(cl'[c].rec)))
              /\ WrittenByHolder(cl'[c].rec, c)]_vars

\* The same when the holder's executor and set succeeded.
C36_FreshAfterWrite ==
    [][\A c \in Callers :
          (/\ WaitReturnsValue(c)
           /\ \E h \in Callers \ {c} : cl[h].sets = 1 /\ cl[h].err = "") =>
              /\ ~IsExpired(cl'[c].rec, now)
              /\ WrittenByHolder(cl'[c].rec, c)]_vars

\* call c is about to release while call h, which took the lock for the same key after
\* the entry of c had expired, is in its locked section and its entry is there
ReleasesUnder(c, h) ==
    /\ c # h
    /\ cl[c].pc = "release"
    /\ InLockedSection(h)
    /\ cl[h].key = cl[c].key
    /\ cl[h].lockedAt > cl[c].lockedAt
    /\ LockOf(cl[h].key) \in locks

\* C37: the releaseKey of a call whose lock expired does not remove the lock entry that
\* a later call took for the same key and still holds, so that no further call can take
\* the lock while the later call is in its locked section.
C37_ReleaseOwnLock ==
    [][\A c, h \in Callers :
          (ReleasesUnder(c, h) /\ cl'[c].pc = "done") => LockOf(cl[h].key) \in locks']_vars

\* what storage.keyIsLocked(k) gives when the adapter call ends as o: the error, or
\* whether the entry of k is there
KeyIsLocked(k, o) ==
    IF o # "ok" THEN ErrorOf(o) ELSE IF LockOf(k) \in locks THEN "locked" ELSE "unlocked"

\* what the lock check of the strategy gave call c in this step
LockCheckGave(c) == IF cl'[c].pc = "done" THEN cl'[c].res ELSE cl'[c].seen

\* C38: the lock check of the waitForResult strategy that BaseManager registers by
\* default gives what storage.keyIsLocked gives for the key the call tried to lock, and
\* its record read gives what storage.get gives.
C38_DefaultStrategyOnStorage ==
    [][\A c \in Callers :
          (/\ ~customWfr
           /\ cl[c].pc = "wchk" /\ cl'[c].pc # "wchk"
           /\ ~DeadlinePassed(Started(cl[c]))) =>
              \E o \in Outcomes("primary", "isLockExists") :
                  LockCheckGave(c) = KeyIsLocked(cl[c].key, o)]_vars

\* The same for a waitForResult strategy that was built on the storage and registered.
C38_RegisteredStrategyOnStorage ==
    [][\A c \in Callers :
          (/\ customWfr
           /\ cl[c].pc = "wchk" /\ cl'[c].pc # "wchk"
           /\ ~DeadlinePassed(Started(cl[c]))) =>
              \E o \in Outcomes("primary", "isLockExists") :
                  LockCheckGave(c) = KeyIsLocked(cl[c].key, o)]_vars

\* ------------------------------------------------ the keys of one adapter
\* A string is the sequence of its pieces, template strings and + being \o.
\* options.prefix: none, or "p"
Prefixes == {<<>>, <<"p">>}
TAGS_VERSIONS_ALIAS == <<"cache-tags-versions">>

\* BaseStorage.createKey with hashKeys = false
createKey(key) ==
    IF keyspace.prefix # <<>> THEN keyspace.prefix \o <<"-">> \o key ELSE key

\* BaseStorage.createTagKey
createTagKey(tagName) == createKey(TAGS_VERSIONS_ALIAS \o <<":">> \o tagName)

\* the adapters' lock entry: `${key}_lock`
LockEntry(key) == key \o <<"_lock">>

\* RefreshAheadManager.refresh: `refreshAhead:${key}`
refreshAheadKey(key) == <<"refreshAhead", ":">> \o key

\* the logical keys given to set, get and del, and those given to lockKey, releaseKey
\* and keyIsLocked
RecordKeys ==
    {<<"k1">>, <<"k1", "_lock">>, <<"refreshAhead", ":", "k1", "_lock">>,
     <<"cache-tags-versions", ":", "t1">>}
LockedKeys == {<<"k1">>, refreshAheadKey(<<"k1">>)}
TouchedTags == {<<"t1">>}

Entry(entries, key) == {e \in entries : e[1] = key}
Put(entries, key, value) == (entries \ Entry(entries, key)) \cup {<<key, value>>}

KeyspaceCall(name, key, result, entries, lockKeyed) ==
    /\ keyspace.last.n < MaxAdapterCalls
    /\ keyspace' = [keyspace EXCEPT !.entries = entries, !.lockKeyed = lockKeyed,
                                    !.last = [n |-> keyspace.last.n + 1, op |-> name,
                                              key |-> key, result |-> result]]
    /\ UNCHANGED <<now, status, sepTags, customWfr, faulty, refreshAhead, ops, adp,
                   lastCommand, lastSet, lastTagCall, store, locks, ptags, ttags, queue,
                   drains, cl, rf, ptagOps, stale>>

\* BaseStorage.set -> adapter.set(createKey(key), serialized record)
KeySet(key) ==
    KeyspaceCall("set", key, TRUE, Put(keyspace.entries, createKey(key), "record"),
                 keyspace.lockKeyed)

\* BaseStorage.get -> adapter.get(createKey(key))
KeyGet(key) ==
    KeyspaceCall("get", key, Entry(keyspace.entries, createKey(key)) # {},
                 keyspace.entries, keyspace.lockKeyed)

\* BaseStorage.del -> adapter.del(createKey(key))
KeyDel(key) ==
    KeyspaceCall("del", key, Entry(keyspace.entries, createKey(key)) # {},
                 keyspace.entries \ Entry(keyspace.entries, createKey(key)),
                 keyspace.lockKeyed)

\* BaseStorage.touch -> setTagVersions -> tagsAdapter.mset, the tags adapter being the
\* adapter itself
KeyTouch(tagName) ==
    KeyspaceCall("touch", tagName, TRUE,
                 Put(keyspace.entries, createTagKey(tagName), "version"),
                 keyspace.lockKeyed)

\* BaseStorage.lockKey -> RedisStorageAdapter.acquireLock: SET key_lock "" PX ttl NX
KeyLock(key) ==
    LET absent == Entry(keyspace.entries, LockEntry(createKey(key))) = {}
    IN KeyspaceCall("lockKey", key, absent,
                    IF absent THEN Put(keyspace.entries, LockEntry(createKey(key)), "")
                    ELSE keyspace.entries,
                    IF absent THEN keyspace.lockKeyed \cup {key} ELSE keyspace.lockKeyed)

\* BaseStorage.releaseKey -> RedisStorageAdapter.releaseLock: DEL key_lock
KeyRelease(key) ==
    KeyspaceCall("releaseKey", key,
                 Entry(keyspace.entries, LockEntry(createKey(key))) # {},
                 keyspace.entries \ Entry(keyspace.entries, LockEntry(createKey(key))),
                 keyspace.lockKeyed \ {key})

\* BaseStorage.keyIsLocked -> RedisStorageAdapter.isLockExists: EXISTS key_lock
KeyIsLockedCall(key) ==
    KeyspaceCall("keyIsLocked", key,
                 Entry(keyspace.entries, LockEntry(createKey(key))) # {},
                 keyspace.entries, keyspace.lockKeyed)

InitKeys ==
    /\ InitStore
    /\ refreshAhead = DefaultRefreshAhead
    /\ adp = NoAdapterCall
    /\ lastCommand = NoCommand
    /\ lastSet = NoSetCall
    /\ lastTagCall = NoTagCall
    /\ \E prefix \in Prefixes : keyspace = [NoKeyspace EXCEPT !.prefix = prefix]
    /\ status = "CONNECTED"
    /\ sepTags = FALSE
    /\ customWfr = FALSE
    /\ faulty = {}

NextKeys ==
    \/ \E key \in RecordKeys : KeySet(key)
    \/ \E key \in RecordKeys : KeyGet(key)
    \/ \E key \in RecordKeys : KeyDel(key)
    \/ \E tagName \in TouchedTags : KeyTouch(tagName)
    \/ \E key \in LockedKeys : KeyLock(key)
    \/ \E key \in LockedKeys : KeyRelease(key)
    \/ \E key \in LockedKeys : KeyIsLockedCall(key)

SpecKeys == InitKeys /\ [][NextKeys]_vars

KeyspaceCalled(names) ==
    keyspace'.last.n = keyspace.last.n + 1 /\ keyspace'.last.op \in names

\* C39: a set, get or del of any logical key leaves the lock entry of every logical key
\* (that of "refreshAhead:k" included) and the version entry of every tag as they
\* were, and keyIsLocked(k) is true only after a lockKey(k) that returned true.
C39_NoCollision ==
    /\ [][KeyspaceCalled({"set", "get", "del"}) =>
            /\ \A key \in LockedKeys :
                  Entry(keyspace'.entries, LockEntry(createKey(key)))
                      = Entry(keyspace.entries, LockEntry(createKey(key)))
            /\ \A tagName \in TouchedTags :
                  Entry(keyspace'.entries, createTagKey(tagName))
                      = Entry(keyspace.entries, createTagKey(tagName))]_vars
    /\ [][\A key \in LockedKeys :
            (/\ KeyspaceCalled({"keyIsLocked"}) /\ keyspace'.last.key = key
             /\ keyspace'.last.result) => key \in keyspace.lockKeyed]_vars

\* The same when no logical key given to set, get or del is a logical key followed by
\* "_lock" or begins with "cache-tags-versions:".
PlainKey(key) ==
    /\ key[Len(key)] # "_lock"
    /\ SubSeq(key, 1, 1) # TAGS_VERSIONS_ALIAS

C39_PlainKeysApart ==
    /\ [][(KeyspaceCalled({"set", "get", "del"}) /\ PlainKey(keyspace'.last.key)) =>
            /\ \A key \in LockedKeys :
                  Entry(keyspace'.entries, LockEntry(createKey(key)))
                      = Entry(keyspace.entries, LockEntry(createKey(key)))
            /\ \A tagName \in TouchedTags :
                  Entry(keyspace'.entries, createTagKey(tagName))
                      = Entry(keyspace.entries, createTagKey(tagName))]_vars

====
